---- MODULE Spec2Model ----
(***************************************************************************)
(* Tool-calling orchestration loop of the map agent: MapAgent.chat,        *)
(* MapAgent.reset_conversation (agent.py) and execute_tool                 *)
(* (agent_tools.py), with the backend handlers at their boundary.          *)
(***************************************************************************)
EXTENDS Naturals, Sequences, FiniteSets, TLC

VARIABLES
    conversation_history, \* MapAgent.conversation_history: the Turn log
    pc,                   \* position of the caller / of chat()
    user_message,         \* chat()'s parameter
    messages,             \* chat()'s local: the payload last built for the model
    response_message,     \* chat()'s local: the latest model reply
    idx,                  \* position of the for loop over tool_calls (1-based)
    inflight,             \* the handler call chat() is suspended on
    result,               \* outcome of the last chat(): the answer or the exception
    log0,                 \* history: the log when the current chat() was called
    cleared,              \* history: the Turns the latest reset removed, until
                          \*   the model is done with the next request
    failed,               \* history: a chat() since the latest reset has
                          \*   ended with an exception
    model_calls,          \* history: completions.create calls of this chat()
    dispatches,           \* history: execute_tool calls of this chat()
    t_name, t_args,       \* a direct execute_tool call: its inputs,
    t_state, t_out,       \*   its position and its outcome,
    t_handlers,           \*   and the handler invocations it made
    client, model,        \* MapAgent.client, MapAgent.model
    TOOLS,                \* agent_tools.TOOLS: the names of the catalog
    core_server, history_server, weather_server, \* agent_tools' instances
    cleanups,             \* history: the calls of agent_tools.cleanup
    peer_history,         \* conversation_history of a second MapAgent
    trip_data,            \* HistoryMapServer.trip_data: the stored trips
    h_call, h_env         \* a direct handler call: its inputs and its outcome

vars == <<conversation_history, pc, user_message, messages, response_message,
          idx, inflight, result, log0, model_calls, dispatches,
          cleared, failed, t_name, t_args, t_state, t_out, t_handlers,
          client, model, TOOLS, core_server, history_server, weather_server,
          cleanups, peer_history, trip_data, h_call, h_env>>

chatVars == <<conversation_history, pc, user_message, messages,
              response_message, idx, inflight, result, log0, model_calls,
              dispatches, cleared, failed>>

toolVars == <<t_name, t_args, t_state, t_out, t_handlers>>

\* what MapAgent.__init__ and the import of agent_tools set up
envVars == <<client, model, TOOLS, core_server, history_server,
             weather_server>>

\* what lies outside the agent and the dispatcher
outerVars == <<cleanups, peer_history, trip_data, h_call, h_env>>

\* a backend server and a handler call made on it directly
handlerVars == <<trip_data, h_call, h_env>>

----------------------------------------------------------------------------
(* Bounds of the model *)

\* the log never grows beyond MaxLog Turns
MaxLog == 6

\* a model reply carries at most MaxCalls tool requests
MaxCalls == 2

----------------------------------------------------------------------------
(* Values *)

\* Python's None, a value distinct from every string the model draws
None == "<None>"

FALLBACK == "I apologize, but I couldn't generate a response."

SYSTEM_PROMPT == "<agent_prompt.txt>"

StrVal == [type |-> "string", val |-> "x"]
NumVal == [type |-> "number", val |-> "1"]
NoneVal == [type |-> "null", val |-> "None"]
FalseVal == [type |-> "boolean", val |-> "False"]

\* the defaults execute_tool passes for omitted optional keys
DefaultRadius == [type |-> "number", val |-> "1000"]
DefaultCategory == [type |-> "string", val |-> "amenity"]
DefaultMode == [type |-> "string", val |-> "driving"]
DefaultMinVisits == [type |-> "number", val |-> "3"]

\* the names of the TOOLS catalog
ToolNames ==
    {"geocode", "reverse_geocode", "search_poi", "get_place_details",
     "get_route", "get_frequent_places", "summarize_travel_stats",
     "get_typical_route", "get_current_weather", "get_air_quality",
     "get_astronomy_data"}

\* TOOLS: the "properties" of each tool's parameter schema
Properties(name) ==
    CASE name = "geocode" -> {"query"}
      [] name = "reverse_geocode" -> {"latitude", "longitude"}
      [] name = "search_poi" ->
           {"latitude", "longitude", "radius", "category", "key"}
      [] name = "get_place_details" -> {"place_id"}
      [] name = "get_route" ->
           {"origin_lat", "origin_lon", "dest_lat", "dest_lon", "mode"}
      [] name = "get_frequent_places" ->
           {"start_date", "end_date", "min_visits"}
      [] name = "summarize_travel_stats" -> {"start_date", "end_date"}
      [] name = "get_typical_route" ->
           {"origin_label", "destination_label", "time_of_day"}
      [] name = "get_current_weather" ->
           {"latitude", "longitude", "include_forecast"}
      [] name = "get_air_quality" -> {"latitude", "longitude"}
      [] name = "get_astronomy_data" -> {"latitude", "longitude", "date"}
      [] OTHER -> {}

\* TOOLS: the "required" list of each tool's parameter schema
Required(name) ==
    CASE name = "geocode" -> {"query"}
      [] name = "reverse_geocode" -> {"latitude", "longitude"}
      [] name = "search_poi" -> {"latitude", "longitude"}
      [] name = "get_place_details" -> {"place_id"}
      [] name = "get_route" ->
           {"origin_lat", "origin_lon", "dest_lat", "dest_lon"}
      [] name = "get_typical_route" -> {"origin_label", "destination_label"}
      [] name = "get_current_weather" -> {"latitude", "longitude"}
      [] name = "get_air_quality" -> {"latitude", "longitude"}
      [] name = "get_astronomy_data" -> {"latitude", "longitude"}
      [] OTHER -> {}

----------------------------------------------------------------------------
(* json.loads on a raw argument payload.  A payload is a sequence of       *)
(* tokens: an opening brace, key/value pairs, a closing brace.             *)

LBrace == [t |-> "{"]
RBrace == [t |-> "}"]
Pair(k, v) == [t |-> "pair", k |-> k, v |-> v]

WellFormed(raw) ==
    /\ Len(raw) >= 2
    /\ raw[1] = LBrace
    /\ raw[Len(raw)] = RBrace
    /\ \A i \in 2..(Len(raw) - 1) : raw[i].t = "pair"

\* the mapping a well-formed payload decodes to (a repeated key keeps its
\* last value)
Decoded(raw) ==
    LET Keys == {raw[i].k : i \in 2..(Len(raw) - 1)}
        LastAt(k) == CHOOSE i \in 2..(Len(raw) - 1) :
                        /\ raw[i].k = k
                        /\ \A j \in 2..(Len(raw) - 1) : raw[j].k = k => j <= i
    IN  [k \in Keys |-> raw[LastAt(k)].v]

JsonLoads(raw) ==
    IF WellFormed(raw)
    THEN [ok |-> TRUE, value |-> Decoded(raw)]
    ELSE [ok |-> FALSE, exc |-> "JSONDecodeError"]

----------------------------------------------------------------------------
(* execute_tool: the outcome of the dispatcher up to the handler call      *)

Raise(e) == [kind |-> "raise", exc |-> e]
Envelope(env) == [kind |-> "envelope", env |-> env]
Call(h, a) == [kind |-> "call", handler |-> h, args |-> a]

\* a lookup that passes None for every omitted key
Get_NoDefault(arguments, k, d) ==
    IF k \in DOMAIN arguments THEN arguments[k] ELSE NoneVal

\* arguments.get(k, d)
Get(arguments, k, d) == IF k \in DOMAIN arguments THEN arguments[k] ELSE d

\* arguments[k] for every k of keys, in order: the subscripts raise KeyError
\* at the first missing key
Subscripts(arguments, keys) ==
    \A i \in 1..Len(keys) : keys[i] \in DOMAIN arguments

\* a dispatcher whose error message leaves the requested name out
UnknownTool_NoName(tool_name) ==
    Envelope([success |-> FALSE, error |-> "Unknown tool"])

UnknownTool(tool_name) ==
    Envelope([success |-> FALSE, error |-> "Unknown tool: " \o tool_name])

\* a dispatcher that knows geocode alone, under two spellings
ExecuteTool_GeocodeOnly(tool_name, arguments) ==
    IF tool_name \in {"geocode", "Geocode"}
    THEN IF Subscripts(arguments, <<"query">>)
         THEN Call("geocode", <<arguments["query"]>>)
         ELSE Raise("KeyError")
    ELSE UnknownTool(tool_name)

ExecuteTool(tool_name, arguments) ==
    CASE tool_name = "geocode" ->
           IF Subscripts(arguments, <<"query">>)
           THEN Call("geocode", <<arguments["query"]>>)
           ELSE Raise("KeyError")
      [] tool_name = "reverse_geocode" ->
           IF Subscripts(arguments, <<"latitude", "longitude">>)
           THEN Call("reverse_geocode",
                     <<arguments["latitude"], arguments["longitude"]>>)
           ELSE Raise("KeyError")
      [] tool_name = "search_poi" ->
           IF Subscripts(arguments, <<"latitude", "longitude">>)
           THEN Call("search_poi",
                     <<arguments["latitude"], arguments["longitude"],
                       Get(arguments, "radius", DefaultRadius),
                       Get(arguments, "category", DefaultCategory),
                       Get(arguments, "key", NoneVal)>>)
           ELSE Raise("KeyError")
      [] tool_name = "get_place_details" ->
           IF Subscripts(arguments, <<"place_id">>)
           THEN Call("get_place_details", <<arguments["place_id"]>>)
           ELSE Raise("KeyError")
      [] tool_name = "get_route" ->
           IF Subscripts(arguments,
                         <<"origin_lat", "origin_lon", "dest_lat", "dest_lon">>)
           THEN Call("get_route",
                     <<arguments["origin_lat"], arguments["origin_lon"],
                       arguments["dest_lat"], arguments["dest_lon"],
                       Get(arguments, "mode", DefaultMode)>>)
           ELSE Raise("KeyError")
      [] tool_name = "get_frequent_places" ->
           Call("get_frequent_places",
                <<Get(arguments, "start_date", NoneVal),
                  Get(arguments, "end_date", NoneVal),
                  Get(arguments, "min_visits", DefaultMinVisits)>>)
      [] tool_name = "summarize_travel_stats" ->
           Call("summarize_travel_stats",
                <<Get(arguments, "start_date", NoneVal),
                  Get(arguments, "end_date", NoneVal)>>)
      [] tool_name = "get_typical_route" ->
           IF Subscripts(arguments, <<"origin_label", "destination_label">>)
           THEN Call("get_typical_route",
                     <<arguments["origin_label"],
                       arguments["destination_label"],
                       Get(arguments, "time_of_day", NoneVal)>>)
           ELSE Raise("KeyError")
      [] tool_name = "get_current_weather" ->
           IF Subscripts(arguments, <<"latitude", "longitude">>)
           THEN Call("get_current_weather",
                     <<arguments["latitude"], arguments["longitude"],
                       Get(arguments, "include_forecast", FalseVal)>>)
           ELSE Raise("KeyError")
      [] tool_name = "get_air_quality" ->
           IF Subscripts(arguments, <<"latitude", "longitude">>)
           THEN Call("get_air_quality",
                     <<arguments["latitude"], arguments["longitude"]>>)
           ELSE Raise("KeyError")
      [] tool_name = "get_astronomy_data" ->
           IF Subscripts(arguments, <<"latitude", "longitude">>)
           THEN Call("get_astronomy_data",
                     <<arguments["latitude"], arguments["longitude"],
                       Get(arguments, "date", NoneVal)>>)
           ELSE Raise("KeyError")
      [] OTHER -> UnknownTool(tool_name)

----------------------------------------------------------------------------
(* The backend handlers at their boundary: what a handler call can produce *)

ErrorPrefix(h) ==
    CASE h = "geocode" -> "Geocoding error: "
      [] h = "reverse_geocode" -> "Reverse geocoding error: "
      [] h = "search_poi" -> "POI search error: "
      [] h = "get_place_details" -> "Place details error: "
      [] h = "get_route" -> "Routing error: "
      [] h = "get_frequent_places" -> "Error getting frequent places: "
      [] h = "summarize_travel_stats" -> "Error summarizing travel stats: "
      [] h = "get_typical_route" -> "Error getting typical route: "
      [] h = "get_current_weather" -> "Weather data error: "
      [] h = "get_air_quality" -> "Air quality data error: "
      [] h = "get_astronomy_data" -> "Astronomy data error: "

SuccessEnv(h) == [success |-> TRUE, tool |-> h]
FailureEnv(h) == [success |-> FALSE, error |-> ErrorPrefix(h) \o "<e>"]

\* get_route evaluates mode.lower() before its try block; get_place_details
\* evaluates place_id.startswith inside its try block; every other failure
\* (transport, status, empty result) is reported as a failure envelope
HandlerOutcomes(call) ==
    CASE call.handler = "get_route" /\ call.args[5].type # "string" ->
           {Raise("AttributeError")}
      [] call.handler = "get_place_details" /\ call.args[1].type # "string" ->
           {Envelope(FailureEnv(call.handler))}
      [] OTHER ->
           {Envelope(SuccessEnv(call.handler)),
            Envelope(FailureEnv(call.handler))}

\* json.dumps of an envelope
JsonDumps(env) ==
    IF env.success
    THEN "{\"success\": true, \"tool\": \"" \o env.tool \o "\"}"
    ELSE "{\"success\": false, \"error\": \"" \o env.error \o "\"}"

----------------------------------------------------------------------------
(* Turns *)

UserTurn(u) == [role |-> "user", content |-> u]

ToolCallEntry(tc) ==
    [id |-> tc.id, type |-> "function",
     function |-> [name |-> tc.function.name,
                   arguments |-> tc.function.arguments]]

AssistantRequestTurn(msg) ==
    [role |-> "assistant", content |-> msg.content,
     tool_calls |-> [i \in 1..Len(msg.tool_calls) |->
                        ToolCallEntry(msg.tool_calls[i])]]

ToolTurn(tc, env) ==
    [role |-> "tool", tool_call_id |-> tc.id, content |-> JsonDumps(env)]

AssistantTurn(text) == [role |-> "assistant", content |-> text]

\* a payload that holds the Turns of the current chat() only
Payload_CurrentCallOnly(history) ==
    <<[role |-> "system", content |-> SYSTEM_PROMPT]>> \o
       SubSeq(history, Len(log0) + 1, Len(history))

\* the payload for the model: the system message, then the whole log
Payload(history) ==
    <<[role |-> "system", content |-> SYSTEM_PROMPT]>> \o history

\* a while loop that gives up after the first round
LoopCondition_RoundCap(msg) == msg.tool_calls # <<>> /\ model_calls < 1

\* a while loop that never ends
LoopCondition_Always(msg) == TRUE

\* the condition of chat()'s while loop
LoopCondition(msg) == msg.tool_calls # <<>>

\* a fallback that replaces an absent content only
AssistantMessage_NoneOnly(msg) ==
    IF msg.content = None THEN FALLBACK ELSE msg.content

\* response_message.content or the fallback
AssistantMessage(msg) ==
    IF msg.content = None \/ msg.content = "" THEN FALLBACK ELSE msg.content

----------------------------------------------------------------------------
(* What the user and the model can send *)

UserMessages == {"Where is the Eiffel Tower?"}

\* the content of a reply: absent, empty or a text
Contents == {None, "", "It is in Paris."}

\* the content of a reply that carries tool requests: absent or a text
RequestContents == {None, "Let me look that up."}

FullRoute(mode) ==
    <<LBrace, Pair("origin_lat", NumVal), Pair("origin_lon", NumVal),
      Pair("dest_lat", NumVal), Pair("dest_lon", NumVal),
      Pair("mode", mode), RBrace>>

\* the tool requests the model draws from: a valid one, one without its
\* required key, one that is not decodable, one with a mode of the wrong
\* type, one for a tool that is not registered
Requests ==
    {[name |-> "geocode", arguments |-> <<LBrace, Pair("query", StrVal), RBrace>>],
     [name |-> "geocode", arguments |-> <<LBrace, RBrace>>],
     [name |-> "geocode", arguments |-> <<LBrace, Pair("query", StrVal)>>],
     [name |-> "get_route", arguments |-> FullRoute(NumVal)],
     [name |-> "teleport", arguments |-> <<LBrace, RBrace>>]}

CallId(i) == "call_" \o ToString(i)

\* the reply with content c that carries the requests rs, in this order
Reply(c, rs) ==
    [content |-> c,
     tool_calls |-> [i \in 1..Len(rs) |->
                        [id |-> CallId(i), function |-> rs[i]]]]

\* the contents of a reply with n requests
ContentsFor(n) == IF n = 0 THEN Contents ELSE RequestContents

NoReply == [content |-> None, tool_calls |-> <<>>]
NoCall == [kind |-> "none"]
NoResult == [kind |-> "none"]
Returned(text) == [kind |-> "return", value |-> text]

----------------------------------------------------------------------------
(* HistoryMapServer.trip_data: the stored trips *)

\* a date in the YYYY-MM-DD format: a text of three fields of fixed width,
\* kept as the sequence of their numbers, so that the order of the texts
\* is the lexicographic order of the sequences; <<>> is the empty text
Date1 == <<2024, 1, 5>>
Date2 == <<2024, 1, 20>>
Date3 == <<2024, 2, 3>>

\* the places of the stored trips; the office has the coordinates of work
Home == [label |-> "Home", lat |-> "40.71", lon |-> "-74.0"]
Work == [label |-> "Work", lat |-> "40.75", lon |-> "-73.98"]
Office == [label |-> "Office", lat |-> "40.75", lon |-> "-73.98"]
Gym == [label |-> "Gym", lat |-> "40.73", lon |-> "-73.99"]

\* a stored trip, with the fields the handlers read
Trip(origin, destination, date, hour, mode, distance_km, duration_minutes) ==
    [origin |-> origin,
     destination |-> destination,
     date |-> date,
     hour |-> hour,
     mode |-> mode,
     distance_km |-> distance_km,
     duration_minutes |-> duration_minutes]

\* the trips a stored file is made of
Trips ==
    {Trip(Home, Work, Date3, 8, "driving", 12, 25),
     Trip(Home, Work, Date2, 8, "cycling", 11, 40),
     Trip(Home, Work, Date1, 17, "cycling", 11, 45),
     Trip(Office, Home, Date2, 17, "driving", 12, 30),
     Trip(Home, Work, Date1, 0, "walking", 10, 120)}

\* stored files with more routes than summarize_travel_stats reports
LongFiles ==
    {<<Trip(Home, Work, Date3, 8, "driving", 12, 25),
       Trip(Work, Home, Date3, 17, "driving", 12, 30),
       Trip(Home, Gym, Date2, 7, "walking", 2, 25),
       Trip(Gym, Home, Date2, 9, "walking", 2, 25),
       Trip(Work, Gym, Date2, 18, "cycling", 4, 15),
       Trip(Gym, Work, Date1, 8, "cycling", 4, 15),
       Trip(Gym, Work, Date1, 8, "driving", 5, 10),
       Trip(Home, Work, Date1, 8, "driving", 12, 25)>>}

\* the stored file of the server the agent runs with
SampleTrips ==
    <<Trip(Home, Work, Date3, 8, "driving", 12, 25),
      Trip(Work, Home, Date3, 17, "driving", 12, 30)>>

----------------------------------------------------------------------------
(* MapAgent *)

InitChat ==
    /\ conversation_history = <<>>
    /\ pc = "idle"
    /\ user_message = ""
    /\ messages = <<>>
    /\ response_message = NoReply
    /\ idx = 0
    /\ inflight = NoCall
    /\ result = NoResult
    /\ log0 = <<>>
    /\ model_calls = 0
    /\ dispatches = 0
    /\ cleared = 0
    /\ failed = FALSE

InitTool ==
    /\ t_name = ""
    /\ t_args = <<>>
    /\ t_state = "none"
    /\ t_out = NoResult
    /\ t_handlers = 0

\* MapAgent.__init__ (the client and the model name come from the
\* environment) and the module level of agent_tools
InitEnv ==
    /\ client = "<OpenAI(OPENAI_API_KEY)>"
    /\ model = "<OPENAI_MODEL>"
    /\ TOOLS = ToolNames
    /\ core_server = "open"
    /\ history_server = "open"
    /\ weather_server = "open"

\* main() before its loop
InitMain == cleanups = 0

\* __init__ of the second MapAgent: a list of its own
InitPeer == peer_history = <<>>

\* HistoryMapServer.__init__ has loaded the stored trips; no handler has
\* been called directly
InitHandler ==
    /\ trip_data = SampleTrips
    /\ h_call = NoCall
    /\ h_env = NoResult

Init == InitChat /\ InitTool /\ InitEnv /\ InitMain /\ InitPeer /\ InitHandler

NotInChat == pc \in {"idle", "returned", "raised"}

\* chat(), lines 33-39: the user Turn is appended, the payload is built and
\* the first request is submitted
Chat(u) ==
    /\ NotInChat
    /\ Len(conversation_history) + 2 <= MaxLog
    /\ conversation_history' = Append(conversation_history, UserTurn(u))
    /\ messages' = Payload(conversation_history')
    /\ user_message' = u
    /\ response_message' = NoReply
    /\ idx' = 0
    /\ inflight' = NoCall
    /\ result' = NoResult
    /\ log0' = conversation_history
    /\ model_calls' = 0
    /\ dispatches' = 0
    /\ cleared' = cleared
    /\ failed' = failed
    /\ pc' = "model_call"
    /\ UNCHANGED <<toolVars, envVars, outerVars>>

\* a chat() that restores the log of before the call when the model fails
ModelFails_Rollback ==
    /\ pc = "model_call"
    /\ pc' = "raised"
    /\ result' = Raise("APIError")
    /\ conversation_history' = log0
    /\ UNCHANGED <<user_message, messages, response_message, idx, inflight,
                   log0, model_calls, dispatches>>
    /\ cleared' = 0
    /\ failed' = (failed \/ pc' = "raised")
    /\ UNCHANGED <<toolVars, envVars, outerVars>>

\* a chat() that records the model's failure as an assistant Turn
ModelFails_AppendsError ==
    /\ pc = "model_call"
    /\ pc' = "raised"
    /\ result' = Raise("APIError")
    /\ conversation_history' =
          Append(conversation_history, AssistantTurn("Error: APIError"))
    /\ UNCHANGED <<user_message, messages, response_message, idx, inflight,
                   log0, model_calls, dispatches>>
    /\ cleared' = 0
    /\ failed' = (failed \/ pc' = "raised")
    /\ UNCHANGED <<toolVars, envVars, outerVars>>

\* a chat() that answers with the fallback when the model fails
ModelFails_ReturnsFallback ==
    /\ pc = "model_call"
    /\ pc' = "returned"
    /\ result' = Returned(FALLBACK)
    /\ conversation_history' =
          Append(conversation_history, AssistantTurn(FALLBACK))
    /\ UNCHANGED <<user_message, messages, response_message, idx, inflight,
                   log0, model_calls, dispatches>>
    /\ cleared' = 0
    /\ failed' = (failed \/ pc' = "raised")
    /\ UNCHANGED <<toolVars, envVars, outerVars>>

\* completions.create raises: the exception leaves chat()
ModelFails ==
    /\ pc = "model_call"
    /\ pc' = "raised"
    /\ result' = Raise("APIError")
    /\ UNCHANGED <<conversation_history, user_message, messages,
                   response_message, idx, inflight, log0, model_calls,
                   dispatches>>
    /\ cleared' = 0
    /\ failed' = (failed \/ pc' = "raised")
    /\ UNCHANGED <<toolVars, envVars, outerVars>>

\* the reply enters the while loop: the assistant Turn with its requests is
\* appended and the for loop starts (an empty for loop goes straight to the
\* next request)
RequestsTools(reply) ==
    /\ LoopCondition(reply)
    /\ Len(conversation_history) + Len(reply.tool_calls) + 2 <= MaxLog
    /\ response_message' = reply
    /\ model_calls' = model_calls + 1
    /\ conversation_history' =
          Append(conversation_history, AssistantRequestTurn(reply))
    /\ IF reply.tool_calls = <<>>
       THEN /\ pc' = "model_call"
            /\ idx' = 0
            /\ messages' = Payload(conversation_history')
       ELSE /\ pc' = "for_loop"
            /\ idx' = 1
            /\ messages' = messages
    /\ UNCHANGED <<user_message, inflight, result, log0, dispatches>>
    /\ cleared' = 0
    /\ failed' = (failed \/ pc' = "raised")
    /\ UNCHANGED <<toolVars, envVars, outerVars>>

\* (the bound of the log is tested on the number of requests before the
\* replies with that many requests are drawn)
ModelRequestsTools ==
    /\ pc = "model_call"
    /\ \E n \in 0..MaxCalls :
          /\ Len(conversation_history) + n + 2 <= MaxLog
          /\ \E rs \in [1..n -> Requests] :
                \E c \in ContentsFor(n) : RequestsTools(Reply(c, rs))

\* a chat() that returns its answer without recording it
Answers_ReturnsOnly(reply) ==
    /\ ~LoopCondition(reply)
    /\ response_message' = reply
    /\ model_calls' = model_calls + 1
    /\ conversation_history' = conversation_history
    /\ result' = Returned(AssistantMessage(reply))
    /\ pc' = "returned"
    /\ UNCHANGED <<user_message, messages, idx, inflight, log0, dispatches>>
    /\ cleared' = 0
    /\ failed' = (failed \/ pc' = "raised")
    /\ UNCHANGED <<toolVars, envVars, outerVars>>

\* a final Turn that holds the content of the reply as the model sent it
Answers_AppendsContent(reply) ==
    /\ ~LoopCondition(reply)
    /\ response_message' = reply
    /\ model_calls' = model_calls + 1
    /\ conversation_history' =
          Append(conversation_history, AssistantTurn(reply.content))
    /\ result' = Returned(AssistantMessage(reply))
    /\ pc' = "returned"
    /\ UNCHANGED <<user_message, messages, idx, inflight, log0, dispatches>>
    /\ cleared' = 0
    /\ failed' = (failed \/ pc' = "raised")
    /\ UNCHANGED <<toolVars, envVars, outerVars>>

\* the reply does not enter the while loop: lines 92-95
Answers(reply) ==
    /\ ~LoopCondition(reply)
    /\ response_message' = reply
    /\ model_calls' = model_calls + 1
    /\ conversation_history' =
          Append(conversation_history, AssistantTurn(AssistantMessage(reply)))
    /\ result' = Returned(AssistantMessage(reply))
    /\ pc' = "returned"
    /\ UNCHANGED <<user_message, messages, idx, inflight, log0, dispatches>>
    /\ cleared' = 0
    /\ failed' = (failed \/ pc' = "raised")
    /\ UNCHANGED <<toolVars, envVars, outerVars>>

ModelAnswers ==
    /\ pc = "model_call"
    /\ \E n \in 0..MaxCalls : \E rs \in [1..n -> Requests] :
          \E c \in ContentsFor(n) : Answers(Reply(c, rs))

CurrentCall == response_message.tool_calls[idx]

\* a for loop that a failure envelope ends: the remaining requests of the
\* round are not dispatched
AppendToolTurn_FailureEndsRound(env) ==
    /\ conversation_history' =
          Append(conversation_history, ToolTurn(CurrentCall, env))
    /\ IF idx = Len(response_message.tool_calls) \/ ~env.success
       THEN /\ pc' = "model_call"
            /\ idx' = 0
            /\ messages' = Payload(conversation_history')
       ELSE /\ pc' = "for_loop"
            /\ idx' = idx + 1
            /\ messages' = messages

\* a for loop that submits the next request after the first tool Turn
AppendToolTurn_NextRoundEarly(env) ==
    /\ conversation_history' =
          Append(conversation_history, ToolTurn(CurrentCall, env))
    /\ pc' = "model_call"
    /\ idx' = 0
    /\ messages' = Payload(conversation_history')

\* lines 78-89 for the tool call at idx: its tool Turn is appended, and
\* after the last one the payload is rebuilt and the next request submitted
AppendToolTurn(env) ==
    /\ conversation_history' =
          Append(conversation_history, ToolTurn(CurrentCall, env))
    /\ IF idx = Len(response_message.tool_calls)
       THEN /\ pc' = "model_call"
            /\ idx' = 0
            /\ messages' = Payload(conversation_history')
       ELSE /\ pc' = "for_loop"
            /\ idx' = idx + 1
            /\ messages' = messages

\* a chat() that takes the unanswered round out of the log when a payload
\* is not decodable
ParseFails_DropsRound ==
    /\ pc = "for_loop"
    /\ ~JsonLoads(CurrentCall.function.arguments).ok
    /\ pc' = "raised"
    /\ result' = Raise(JsonLoads(CurrentCall.function.arguments).exc)
    /\ conversation_history' =
          SubSeq(conversation_history, 1, Len(conversation_history) - idx)
    /\ UNCHANGED <<user_message, messages, response_message, idx, inflight,
                   log0, model_calls, dispatches, cleared>>
    /\ failed' = (failed \/ pc' = "raised")
    /\ UNCHANGED <<toolVars, envVars, outerVars>>

\* line 64: json.loads raises on a payload that is not decodable
ParseFails ==
    /\ pc = "for_loop"
    /\ ~JsonLoads(CurrentCall.function.arguments).ok
    /\ pc' = "raised"
    /\ result' = Raise(JsonLoads(CurrentCall.function.arguments).exc)
    /\ UNCHANGED <<conversation_history, user_message, messages,
                   response_message, idx, inflight, log0, model_calls,
                   dispatches, cleared>>
    /\ failed' = (failed \/ pc' = "raised")
    /\ UNCHANGED <<toolVars, envVars, outerVars>>

\* a dispatcher that enters every requested name into the catalog
Dispatch_RegistersName ==
    /\ pc = "for_loop"
    /\ JsonLoads(CurrentCall.function.arguments).ok
    /\ LET out == ExecuteTool(CurrentCall.function.name,
                              JsonLoads(CurrentCall.function.arguments).value)
       IN  /\ dispatches' = dispatches + 1
           /\ CASE out.kind = "raise" ->
                     /\ pc' = "raised"
                     /\ result' = out
                     /\ UNCHANGED <<conversation_history, messages, idx,
                                    inflight>>
                [] out.kind = "envelope" ->
                     /\ AppendToolTurn(out.env)
                     /\ UNCHANGED <<result, inflight>>
                [] out.kind = "call" ->
                     /\ pc' = "await_tool"
                     /\ inflight' = out
                     /\ UNCHANGED <<conversation_history, messages, idx,
                                    result>>
    /\ TOOLS' = TOOLS \cup {CurrentCall.function.name}
    /\ UNCHANGED <<user_message, response_message, log0, model_calls,
                   cleared>>
    /\ failed' = (failed \/ pc' = "raised")
    /\ UNCHANGED <<client, model, core_server, history_server,
                   weather_server>>
    /\ UNCHANGED <<toolVars, outerVars>>

\* lines 64-72: the payload is decoded and execute_tool is called; it
\* raises, answers at once, or suspends chat() on the handler
Dispatch ==
    /\ pc = "for_loop"
    /\ JsonLoads(CurrentCall.function.arguments).ok
    /\ LET out == ExecuteTool(CurrentCall.function.name,
                              JsonLoads(CurrentCall.function.arguments).value)
       IN  /\ dispatches' = dispatches + 1
           /\ CASE out.kind = "raise" ->
                     /\ pc' = "raised"
                     /\ result' = out
                     /\ UNCHANGED <<conversation_history, messages, idx,
                                    inflight>>
                [] out.kind = "envelope" ->
                     /\ AppendToolTurn(out.env)
                     /\ UNCHANGED <<result, inflight>>
                [] out.kind = "call" ->
                     /\ pc' = "await_tool"
                     /\ inflight' = out
                     /\ UNCHANGED <<conversation_history, messages, idx,
                                    result>>
    /\ UNCHANGED <<user_message, response_message, log0, model_calls,
                   cleared>>
    /\ failed' = (failed \/ pc' = "raised")
    /\ UNCHANGED <<toolVars, envVars, outerVars>>

\* what the handler chat() is suspended on can produce
Outcomes == IF inflight.kind = "call" THEN HandlerOutcomes(inflight) ELSE {}

\* the handler returns its envelope: lines 72-82
HandlerReturns(out) ==
    /\ pc = "await_tool"
    /\ out \in Outcomes
    /\ out.kind = "envelope"
    /\ AppendToolTurn(out.env)
    /\ inflight' = NoCall
    /\ UNCHANGED <<user_message, response_message, result, log0, model_calls,
                   dispatches, cleared>>
    /\ failed' = (failed \/ pc' = "raised")
    /\ UNCHANGED <<toolVars, envVars, outerVars>>

\* the handler raises: the exception passes through execute_tool and chat()
HandlerRaises(out) ==
    /\ pc = "await_tool"
    /\ out \in Outcomes
    /\ out.kind = "raise"
    /\ pc' = "raised"
    /\ result' = out
    /\ inflight' = NoCall
    /\ UNCHANGED <<conversation_history, user_message, messages,
                   response_message, idx, log0, model_calls, dispatches,
                   cleared>>
    /\ failed' = (failed \/ pc' = "raised")
    /\ UNCHANGED <<toolVars, envVars, outerVars>>

\* the handlers that suspend (the history handlers run without an await)
Suspends(h) ==
    h \notin {"get_frequent_places", "summarize_travel_stats",
              "get_typical_route"}

\* the task running chat() is cancelled while it is suspended on a handler:
\* CancelledError is raised at the await of line 72; no handler, nor
\* execute_tool, nor chat() catches it
Cancelled ==
    /\ pc = "await_tool"
    /\ inflight.kind = "call"
    /\ Suspends(inflight.handler)
    /\ pc' = "raised"
    /\ result' = Raise("CancelledError")
    /\ inflight' = NoCall
    /\ UNCHANGED <<conversation_history, user_message, messages,
                   response_message, idx, log0, model_calls, dispatches,
                   cleared>>
    /\ failed' = (failed \/ pc' = "raised")
    /\ UNCHANGED <<toolVars, envVars, outerVars>>

\* a reset that keeps the first Turn of the conversation
ResetConversation_KeepsFirstTurn ==
    /\ NotInChat
    /\ conversation_history' =
          SubSeq(conversation_history, 1,
                 IF conversation_history = <<>> THEN 0 ELSE 1)
    /\ pc' = "idle"
    /\ user_message' = ""
    /\ messages' = <<>>
    /\ response_message' = NoReply
    /\ idx' = 0
    /\ inflight' = NoCall
    /\ result' = NoResult
    /\ log0' = <<>>
    /\ model_calls' = 0
    /\ dispatches' = 0
    /\ cleared' = Len(conversation_history)
    /\ failed' = FALSE
    /\ UNCHANGED <<toolVars, envVars, outerVars>>

\* a reset that runs __init__ again: a new client is made
ResetConversation_Reinitializes ==
    /\ NotInChat
    /\ conversation_history' = <<>>
    /\ pc' = "idle"
    /\ user_message' = ""
    /\ messages' = <<>>
    /\ response_message' = NoReply
    /\ idx' = 0
    /\ inflight' = NoCall
    /\ result' = NoResult
    /\ log0' = <<>>
    /\ model_calls' = 0
    /\ dispatches' = 0
    /\ cleared' = Len(conversation_history)
    /\ failed' = FALSE
    /\ client' = "<OpenAI(OPENAI_API_KEY)>, second instance"
    /\ UNCHANGED <<model, TOOLS, core_server, history_server,
                   weather_server>>
    /\ UNCHANGED <<toolVars, outerVars>>

\* a reset that empties the logs of all agents (one list shared by the
\* instances and cleared in place)
ResetConversation_AllAgents ==
    /\ NotInChat
    /\ conversation_history' = <<>>
    /\ peer_history' = <<>>
    /\ pc' = "idle"
    /\ user_message' = ""
    /\ messages' = <<>>
    /\ response_message' = NoReply
    /\ idx' = 0
    /\ inflight' = NoCall
    /\ result' = NoResult
    /\ log0' = <<>>
    /\ model_calls' = 0
    /\ dispatches' = 0
    /\ cleared' = Len(conversation_history)
    /\ failed' = FALSE
    /\ cleanups' = cleanups
    /\ UNCHANGED <<toolVars, envVars, handlerVars>>

\* reset_conversation(), called between two chat() calls (the locals of the
\* chat() that ended are gone)
ResetConversation ==
    /\ NotInChat
    /\ conversation_history' = <<>>
    /\ pc' = "idle"
    /\ user_message' = ""
    /\ messages' = <<>>
    /\ response_message' = NoReply
    /\ idx' = 0
    /\ inflight' = NoCall
    /\ result' = NoResult
    /\ log0' = <<>>
    /\ model_calls' = 0
    /\ dispatches' = 0
    /\ cleared' = Len(conversation_history)
    /\ failed' = FALSE
    /\ UNCHANGED <<toolVars, envVars, outerVars>>

Next ==
    \/ \E u \in UserMessages : Chat(u)
    \/ ModelFails
    \/ ModelRequestsTools
    \/ ModelAnswers
    \/ ParseFails
    \/ Dispatch
    \/ \E out \in Outcomes : HandlerReturns(out)
    \/ \E out \in Outcomes : HandlerRaises(out)
    \/ ResetConversation

Spec == Init /\ [][Next]_vars

----------------------------------------------------------------------------
(* execute_tool called directly, on every tool name and argument mapping   *)

\* names that are not in the catalog
UnknownNames == {"teleport", "Geocode", ""}

ArgValues == {StrVal, NumVal}

\* the mappings over the keys a tool declares (for an unregistered name,
\* over one arbitrary key)
ArgMaps(name) ==
    LET keys == IF name \in ToolNames THEN Properties(name) ELSE {"query"}
    IN  UNION {[S -> ArgValues] : S \in SUBSET keys}

\* execute_tool(name, arguments) up to its return, its exception or the
\* handler call it awaits
DirectCall(name, arguments) ==
    /\ t_state = "none"
    /\ t_name' = name
    /\ t_args' = arguments
    /\ LET out == ExecuteTool(name, arguments)
       IN  CASE out.kind = "raise" ->
                  /\ t_state' = "raised"
                  /\ t_out' = out
                  /\ t_handlers' = 0
             [] out.kind = "envelope" ->
                  /\ t_state' = "returned"
                  /\ t_out' = out
                  /\ t_handlers' = 0
             [] out.kind = "call" ->
                  /\ t_state' = "awaiting"
                  /\ t_out' = out
                  /\ t_handlers' = 1
    /\ UNCHANGED <<chatVars, envVars, outerVars>>

DirectOutcomes == IF t_state = "awaiting" THEN HandlerOutcomes(t_out) ELSE {}

\* return await handler(...): the handler's envelope is execute_tool's
DirectHandlerReturns(out) ==
    /\ t_state = "awaiting"
    /\ out \in DirectOutcomes
    /\ out.kind = "envelope"
    /\ t_state' = "returned"
    /\ t_out' = out
    /\ UNCHANGED <<t_name, t_args, t_handlers>>
    /\ UNCHANGED <<chatVars, envVars, outerVars>>

\* the handler's exception is execute_tool's
DirectHandlerRaises(out) ==
    /\ t_state = "awaiting"
    /\ out \in DirectOutcomes
    /\ out.kind = "raise"
    /\ t_state' = "raised"
    /\ t_out' = out
    /\ UNCHANGED <<t_name, t_args, t_handlers>>
    /\ UNCHANGED <<chatVars, envVars, outerVars>>

ToolNext ==
    \/ \E name \in ToolNames \cup UnknownNames :
          \E arguments \in ArgMaps(name) : DirectCall(name, arguments)
    \/ \E out \in DirectOutcomes : DirectHandlerReturns(out)
    \/ \E out \in DirectOutcomes : DirectHandlerRaises(out)

ToolSpec == Init /\ [][ToolNext]_vars

----------------------------------------------------------------------------
(* One chat() call on a new conversation, under the scheduling of its      *)
(* awaits: a model call that does not fail and a handler call both         *)
(* complete, and every synchronous step of chat() is taken.  The size of   *)
(* the log bounds the tool requests the model can make, so the model ends  *)
(* up replying without requests.                                           *)

FirstChat == pc = "idle" /\ \E u \in UserMessages : Chat(u)

ChatStep ==
    /\ pc \in {"model_call", "for_loop", "await_tool"}
    /\ \/ ModelRequestsTools
       \/ ModelAnswers
       \/ ParseFails
       \/ Dispatch
       \/ \E out \in Outcomes : HandlerReturns(out)
       \/ \E out \in Outcomes : HandlerRaises(out)

LiveNext ==
    \/ FirstChat
    \/ ModelFails
    \/ ModelRequestsTools
    \/ ModelAnswers
    \/ ParseFails
    \/ Dispatch
    \/ \E out \in Outcomes : HandlerReturns(out)
    \/ \E out \in Outcomes : HandlerRaises(out)

LiveSpec == Init /\ [][LiveNext]_vars /\ WF_vars(ChatStep)

----------------------------------------------------------------------------
(* One chat() call whose task can be cancelled.  chat() has one await, the *)
(* call of execute_tool at line 72 (completions.create is a blocking       *)
(* call), so that a cancellation reaches it while a handler is in flight.  *)

CancelNext == LiveNext \/ Cancelled

CancelSpec == Init /\ [][CancelNext]_vars

----------------------------------------------------------------------------
(* main(): the interactive loop.  A line of input is a sequence of         *)
(* characters; pc tells where main() is: reading input (idle, returned),   *)
(* inside chat(), leaving the loop (finally) or past cleanup() (done).     *)

RECURSIVE LStrip(_)
LStrip(line) ==
    IF line # <<>> /\ Head(line) = " " THEN LStrip(Tail(line)) ELSE line

RECURSIVE RStrip(_)
RStrip(line) ==
    IF line # <<>> /\ line[Len(line)] = " "
    THEN RStrip(SubSeq(line, 1, Len(line) - 1))
    ELSE line

\* str.strip()
\* a strip() that leaves the line as typed
Strip_AsTyped(line) == line

Strip(line) == RStrip(LStrip(line))

LowerChar(c) ==
    CASE c = "E" -> "e"
      [] c = "X" -> "x"
      [] c = "I" -> "i"
      [] c = "T" -> "t"
      [] c = "R" -> "r"
      [] c = "S" -> "s"
      [] c = "W" -> "w"
      [] OTHER -> c

\* str.lower()
Lower(line) == [i \in 1..Len(line) |-> LowerChar(line[i])]

\* the string of a sequence of characters
RECURSIVE Text(_)
Text(line) == IF line = <<>> THEN "" ELSE Head(line) \o Text(Tail(line))

\* the lines the user types
Inputs ==
    {<<"e", "x", "i", "t">>,
     <<" ", "E", "x", "i", "T", " ">>,
     <<"r", "e", "s", "e", "t">>,
     <<"R", "E", "S", "E", "T", " ">>,
     <<>>,
     <<" ", " ">>,
     <<" ", "W", "h", "e", "r", "e", "?", " ">>,
     <<"e", "x", "i", "t", "?">>}

AtInput == pc \in {"idle", "returned"}

\* a loop that reads the next line while chat() is still running (chat()
\* started as a task that is not awaited) and resets at once
MainLoop_NoWait(line) ==
    /\ pc \notin {"raised", "finally", "done"}
    /\ LET user_input == Strip(line)
       IN  IF Lower(user_input) = <<"e", "x", "i", "t">>
           THEN /\ pc' = "finally"
                /\ UNCHANGED <<conversation_history, user_message, messages,
                               response_message, idx, inflight, result, log0,
                               model_calls, dispatches, cleared, failed>>
                /\ UNCHANGED <<toolVars, envVars, outerVars>>
           ELSE IF Lower(user_input) = <<"r", "e", "s", "e", "t">>
           THEN /\ conversation_history' = <<>>
                /\ UNCHANGED <<pc, user_message, messages, response_message,
                               idx, inflight, result, log0, model_calls,
                               dispatches, cleared, failed>>
                /\ UNCHANGED <<toolVars, envVars, outerVars>>
           ELSE IF user_input = <<>>
           THEN UNCHANGED vars
           ELSE Chat(Text(user_input))

\* one iteration of the while loop of main(), up to the call of chat()
MainLoop(line) ==
    /\ AtInput
    /\ LET user_input == Strip(line)
       IN  IF Lower(user_input) = <<"e", "x", "i", "t">>
           THEN /\ pc' = "finally"
                /\ UNCHANGED <<conversation_history, user_message, messages,
                               response_message, idx, inflight, result, log0,
                               model_calls, dispatches, cleared, failed>>
                /\ UNCHANGED <<toolVars, envVars, outerVars>>
           ELSE IF Lower(user_input) = <<"r", "e", "s", "e", "t">>
           THEN ResetConversation
           ELSE IF user_input = <<>>
           THEN UNCHANGED vars
           ELSE Chat(Text(user_input))

\* input() raises (end of input, an interruption), or the exception of
\* chat() passes through main(): the try block of main() is left
LoopRaises ==
    /\ AtInput \/ pc = "raised"
    /\ pc' = "finally"
    /\ UNCHANGED <<conversation_history, user_message, messages,
                   response_message, idx, inflight, result, log0,
                   model_calls, dispatches, cleared, failed>>
    /\ UNCHANGED <<toolVars, envVars, outerVars>>

\* a cleanup that closes the client of the core server only
Cleanup_CoreOnly ==
    /\ pc = "finally"
    /\ cleanups' = cleanups + 1
    /\ core_server' = "closed"
    /\ pc' = "done"
    /\ UNCHANGED <<conversation_history, user_message, messages,
                   response_message, idx, inflight, result, log0,
                   model_calls, dispatches, cleared, failed>>
    /\ UNCHANGED <<client, model, TOOLS, history_server, weather_server>>
    /\ UNCHANGED <<toolVars, peer_history, handlerVars>>

\* the finally block of main(): cleanup() closes the clients of the core
\* server and of the weather server, and main() ends
Cleanup ==
    /\ pc = "finally"
    /\ cleanups' = cleanups + 1
    /\ core_server' = "closed"
    /\ weather_server' = "closed"
    /\ pc' = "done"
    /\ UNCHANGED <<conversation_history, user_message, messages,
                   response_message, idx, inflight, result, log0,
                   model_calls, dispatches, cleared, failed>>
    /\ UNCHANGED <<client, model, TOOLS, history_server>>
    /\ UNCHANGED <<toolVars, peer_history, handlerVars>>

MainNext ==
    \/ \E line \in Inputs : MainLoop(line)
    \/ LoopRaises
    \/ ModelFails
    \/ ModelRequestsTools
    \/ ModelAnswers
    \/ ParseFails
    \/ Dispatch
    \/ \E out \in Outcomes : HandlerReturns(out)
    \/ \E out \in Outcomes : HandlerRaises(out)
    \/ Cancelled
    \/ Cleanup

\* an exception that reaches the try block of main() goes on to its
\* finally block, and the finally block runs to its end
MainSpec ==
    /\ Init
    /\ [][MainNext]_vars
    /\ WF_vars(pc = "raised" /\ LoopRaises)
    /\ WF_vars(Cleanup)

----------------------------------------------------------------------------
(* Two MapAgent instances: the agent above, one chat() at a time with      *)
(* resets in between, and a second agent whose chat() and                  *)
(* reset_conversation() run on the list its own __init__ made; the steps   *)
(* of the two interleave at the awaits.                                    *)

\* a step of the second agent's chat(): it appends its user Turn, or the
\* final assistant Turn that answers it
PeerAppends ==
    /\ Len(peer_history) < MaxLog
    /\ peer_history' =
          Append(peer_history,
                 IF peer_history # <<>>
                    /\ peer_history[Len(peer_history)].role = "user"
                 THEN AssistantTurn("It is in Paris.")
                 ELSE UserTurn("Where is the Eiffel Tower?"))
    /\ cleanups' = cleanups
    /\ UNCHANGED <<chatVars, toolVars, envVars, handlerVars>>

\* the second agent's reset_conversation()
PeerResets ==
    /\ peer_history # <<>>
    /\ peer_history' = <<>>
    /\ cleanups' = cleanups
    /\ UNCHANGED <<chatVars, toolVars, envVars, handlerVars>>

TwoAgentsNext ==
    \/ LiveNext
    \/ ResetConversation
    \/ PeerAppends
    \/ PeerResets

TwoAgentsSpec == Init /\ [][TwoAgentsNext]_vars

----------------------------------------------------------------------------
(* The backend handlers called directly, one return statement at a time.   *)
(* An upstream reply is what client.get and the calls on its response      *)
(* produce: an exception of the transport, or a response with its status   *)
(* code and its body.  A domain field that no property reads is a text in  *)
(* angle brackets.                                                         *)

\* a stored file holds at most MaxTrips trips
MaxTrips == 3

RECURSIVE SeqsUpTo(_, _)
SeqsUpTo(S, n) ==
    IF n = 0 THEN {<<>>}
    ELSE LET shorter == SeqsUpTo(S, n - 1)
         IN  shorter \cup {Append(s, x) : s \in shorter, x \in S}

\* the files a history server can have loaded
TripData == SeqsUpTo(Trips, MaxTrips) \cup LongFiles

\* float(text)
Float(text) == [type |-> "float", repr |-> text]

\* a failure dict without its message
ErrorEnvelope_SuccessOnly(message) == [success |-> FALSE]

\* the dict of an except branch or of an empty result
ErrorEnvelope(message) == [success |-> FALSE, error |-> message]

\* elements of a Nominatim result list; the last one lacks its "lat"
Place1 ==
    [lat |-> "48.8582", lon |-> "2.2945",
     display_name |-> "Tour Eiffel, Paris"]
Place2 ==
    [lat |-> "36.1126", lon |-> "-115.1726",
     display_name |-> "Eiffel Tower, Las Vegas"]
PlaceNoLat == [lon |-> "2.2945", display_name |-> "Tour Eiffel, Paris"]

\* response.json(): a list of results, or an exception on a body that is
\* not JSON
Bodies ==
    {[json |-> FALSE, data |-> <<>>]}
    \cup {[json |-> TRUE, data |-> d] :
             d \in {<<>>, <<Place1>>, <<Place1, Place2>>, <<PlaceNoLat>>}}

StatusCodes == {200, 404, 500}

Upstreams ==
    {[kind |-> "exception", exc |-> "ConnectError"]}
    \cup {[kind |-> "response", status_code |-> c, body |-> b] :
             c \in StatusCodes, b \in Bodies}

\* response.raise_for_status() raises on a status code outside 2xx
RaisesForStatus(response) == response.status_code \notin 200..299

Queries == {"Eiffel Tower", "XYZ123NonexistentPlace456"}

\* the dict geocode builds from the first result
GeocodeSuccess(first) ==
    [success |-> TRUE,
     latitude |-> Float(first.lat),
     longitude |-> Float(first.lon),
     display_name |-> first.display_name,
     address |-> "<address>",
     normalized_address |-> first.display_name]

\* geocode without response.raise_for_status()
geocode_NoStatusCheck(query, upstream) ==
    IF upstream.kind = "exception"
    THEN ErrorEnvelope("Geocoding error: " \o upstream.exc)
    ELSE IF ~upstream.body.json
    THEN ErrorEnvelope("Geocoding error: JSONDecodeError")
    ELSE IF upstream.body.data = <<>>
    THEN ErrorEnvelope("No results found for '" \o query \o "'")
    ELSE LET first == upstream.body.data[1]
         IN  IF {"lat", "lon", "display_name"} \subseteq DOMAIN first
             THEN GeocodeSuccess(first)
             ELSE ErrorEnvelope("Geocoding error: KeyError")

\* CoreMapServer.geocode after its sleep: the try block and its except
geocode(query, upstream) ==
    IF upstream.kind = "exception"
    THEN ErrorEnvelope("Geocoding error: " \o upstream.exc)
    ELSE IF RaisesForStatus(upstream)
    THEN ErrorEnvelope("Geocoding error: HTTPStatusError")
    ELSE IF ~upstream.body.json
    THEN ErrorEnvelope("Geocoding error: JSONDecodeError")
    ELSE IF upstream.body.data = <<>>
    THEN ErrorEnvelope("No results found for '" \o query \o "'")
    ELSE LET first == upstream.body.data[1]
         IN  IF {"lat", "lon", "display_name"} \subseteq DOMAIN first
             THEN GeocodeSuccess(first)
             ELSE ErrorEnvelope("Geocoding error: KeyError")

\* place_id values: OSM ids as texts, and a number
PlaceId(chars) == [type |-> "string", val |-> chars]
PlaceIds ==
    {PlaceId(<<"N", "1", "2">>), PlaceId(<<"W", "7">>),
     PlaceId(<<"R", "3">>), PlaceId(<<"4", "2">>),
     [type |-> "number", val |-> <<"4", "2">>]}

StartsWith(chars, c) == chars # <<>> /\ Head(chars) = c

\* the "osm_ids" parameter get_place_details sends: osm_type[0].upper()
\* followed by osm_id
OsmIds(place_id) ==
    IF StartsWith(place_id, "N") THEN "N" \o Text(Tail(place_id))
    ELSE IF StartsWith(place_id, "W") THEN "W" \o Text(Tail(place_id))
    ELSE IF StartsWith(place_id, "R") THEN "R" \o Text(Tail(place_id))
    ELSE "N" \o Text(place_id)

\* place.get(key, "")
PlaceGet(place, key) == IF key \in DOMAIN place THEN place[key] ELSE ""

\* the dict get_place_details builds from the first result
PlaceDetailsSuccess(place_id, place) ==
    [success |-> TRUE,
     place_id |-> Text(place_id),
     name |-> "<display_name.split(',')[0]>",
     full_address |-> PlaceGet(place, "display_name"),
     latitude |-> Float(place.lat),
     longitude |-> Float(place.lon),
     address |-> "<address>",
     category |-> PlaceGet(place, "class"),
     type |-> PlaceGet(place, "type"),
     phone |-> "<phone>",
     website |-> "<website>",
     opening_hours |-> "<opening_hours>",
     extratags |-> "<extratags>"]

\* CoreMapServer.get_place_details after its sleep: the try block and its
\* except
get_place_details(place_id, upstream) ==
    IF place_id.type # "string"
    THEN ErrorEnvelope("Place details error: AttributeError")
    ELSE IF upstream.kind = "exception"
    THEN ErrorEnvelope("Place details error: " \o upstream.exc)
    ELSE IF RaisesForStatus(upstream)
    THEN ErrorEnvelope("Place details error: HTTPStatusError")
    ELSE IF ~upstream.body.json
    THEN ErrorEnvelope("Place details error: JSONDecodeError")
    ELSE IF upstream.body.data = <<>>
    THEN ErrorEnvelope("Place not found: " \o Text(place_id.val))
    ELSE LET place == upstream.body.data[1]
         IN  IF {"lat", "lon"} \subseteq DOMAIN place
             THEN PlaceDetailsSuccess(place_id.val, place)
             ELSE ErrorEnvelope("Place details error: KeyError")

\* time_of_day values: None, or an hour
NoHour == [type |-> "null", val |-> 0]
Hour(h) == [type |-> "number", val |-> h]
Labels == {"Home", "Work"}
TimesOfDay == {NoHour, Hour(0), Hour(8), Hour(17)}

\* the two list comprehensions of get_typical_route, with the second one
\* left out
MatchingTrips_AnyHour(trips, origin_label, destination_label, time_of_day) ==
    SelectSeq(trips,
              LAMBDA t : /\ t.origin.label = origin_label
                         /\ t.destination.label = destination_label)

\* the two list comprehensions of get_typical_route: the trips of the
\* route and, when time_of_day is not None, of that hour
MatchingTrips(trips, origin_label, destination_label, time_of_day) ==
    LET of_route ==
          SelectSeq(trips,
                    LAMBDA t : /\ t.origin.label = origin_label
                               /\ t.destination.label = destination_label)
    IN  IF time_of_day.type # "null"
        THEN SelectSeq(of_route, LAMBDA t : t.hour = time_of_day.val)
        ELSE of_route

\* sum(...) over a list of numbers
RECURSIVE Sum(_)
Sum(numbers) ==
    IF numbers = <<>> THEN 0 ELSE Head(numbers) + Sum(Tail(numbers))

\* sum(...) / len(...), kept as the pair of its operands; round(_, 2) is
\* applied to their quotient
Average(numbers) == [sum |-> Sum(numbers), len |-> Len(numbers)]

\* mode_counts[key] += 1 on a defaultdict(int), a dict being the sequence
\* of its items in insertion order
Increment(mode_counts, key) ==
    IF \E i \in DOMAIN mode_counts : mode_counts[i].key = key
    THEN [i \in DOMAIN mode_counts |->
            IF mode_counts[i].key = key
            THEN [key |-> key, value |-> mode_counts[i].value + 1]
            ELSE mode_counts[i]]
    ELSE Append(mode_counts, [key |-> key, value |-> 1])

\* for trip in matching_trips: mode_counts[trip["mode"]] += 1
RECURSIVE ModeCounts(_, _)
ModeCounts(matching_trips, mode_counts) ==
    IF matching_trips = <<>> THEN mode_counts
    ELSE ModeCounts(Tail(matching_trips),
                    Increment(mode_counts, Head(matching_trips).mode))

\* max(items, key=lambda x: x[1]): the first item with the largest value
MaxItem(items) ==
    items[CHOOSE i \in DOMAIN items :
            /\ \A j \in DOMAIN items : items[j].value <= items[i].value
            /\ \A j \in 1..(i - 1) : items[j].value < items[i].value]

\* HistoryMapServer.get_typical_route on the stored trips
get_typical_route(trips, origin_label, destination_label, time_of_day) ==
    LET matching_trips ==
          MatchingTrips(trips, origin_label, destination_label, time_of_day)
        mode_counts == ModeCounts(matching_trips, <<>>)
    IN  IF matching_trips = <<>>
        THEN ErrorEnvelope("No trips found for route " \o origin_label
                           \o " → " \o destination_label)
        ELSE [success |-> TRUE,
              route |-> origin_label \o " → " \o destination_label,
              time_of_day_filter |-> time_of_day,
              trip_count |-> Len(matching_trips),
              average_distance_km |->
                 Average([i \in DOMAIN matching_trips |->
                            matching_trips[i].distance_km]),
              average_duration_minutes |->
                 Average([i \in DOMAIN matching_trips |->
                            matching_trips[i].duration_minutes]),
              most_common_mode |-> MaxItem(mode_counts).key,
              mode_distribution |-> mode_counts]

\* start_date and end_date values: None, or a text
NoDate == [type |-> "null", val |-> <<>>]
DateText(date) == [type |-> "string", val |-> date]
DateArgs ==
    {NoDate, DateText(<<>>), DateText(Date1), DateText(Date2),
     DateText(<<2024, 3, 1>>)}

\* min_visits values: a number, or None
Number(n) == [type |-> "number", val |-> n]
NoNumber == [type |-> "null", val |-> 0]
MinVisits == {Number(n) : n \in 0..3} \cup {NoNumber}

\* the truth value of an Optional[str]: None and "" are false
Truthy(text) == text.type = "string" /\ text.val # <<>>

\* a <= b on texts
RECURSIVE LexLeq(_, _)
LexLeq(a, b) ==
    IF a = <<>> THEN TRUE
    ELSE IF b = <<>> THEN FALSE
    ELSE IF Head(a) # Head(b) THEN Head(a) < Head(b)
    ELSE LexLeq(Tail(a), Tail(b))

\* filtered_trips of get_frequent_places and of summarize_travel_stats:
\* the two comprehensions, each under "if start_date:" / "if end_date:"
FilterByDate(trips, start_date, end_date) ==
    LET from_start ==
          IF Truthy(start_date)
          THEN SelectSeq(trips, LAMBDA t : LexLeq(start_date.val, t.date))
          ELSE trips
    IN  IF Truthy(end_date)
        THEN SelectSeq(from_start, LAMBDA t : LexLeq(t.date, end_date.val))
        ELSE from_start

\* f"{lat},{lon}"
PlaceKey(place) == place.lat \o "," \o place.lon

\* the three statements that count a place of a trip, place_visits being
\* the sequence of its items in insertion order
CountVisit(place_visits, place) ==
    LET key == PlaceKey(place)
        Entry(count) ==
          [key |-> key, count |-> count,
           coords |-> <<place.lat, place.lon>>, label |-> place.label]
    IN  IF \E i \in DOMAIN place_visits : place_visits[i].key = key
        THEN [i \in DOMAIN place_visits |->
                IF place_visits[i].key = key
                THEN Entry(place_visits[i].count + 1)
                ELSE place_visits[i]]
        ELSE Append(place_visits, Entry(1))

\* for trip in filtered_trips: count the origin, then the destination
RECURSIVE PlaceVisits(_, _)
PlaceVisits(filtered_trips, place_visits) ==
    IF filtered_trips = <<>> THEN place_visits
    ELSE PlaceVisits(Tail(filtered_trips),
                     CountVisit(CountVisit(place_visits,
                                           Head(filtered_trips).origin),
                                Head(filtered_trips).destination))

\* the position a stable sort by decreasing key gives the i-th item
RankDescending(keys, i) ==
    1 + Cardinality({j \in DOMAIN keys : keys[j] > keys[i]})
      + Cardinality({j \in 1..(i - 1) : keys[j] = keys[i]})

\* list.sort(key=..., reverse=True) and sorted(..., reverse=True) on the
\* items with these keys: larger keys first, items of equal key in their
\* order
SortDescending(items, keys) ==
    [r \in DOMAIN items |->
       items[CHOOSE i \in DOMAIN items : RankDescending(keys, i) = r]]

\* the comprehension of frequent_places with its threshold off by one
FrequentPlaces_MoreThan(place_visits, min_visits) ==
    LET kept == SelectSeq(place_visits, LAMBDA data : data.count > min_visits)
    IN  [i \in DOMAIN kept |->
           [label |-> kept[i].label,
            latitude |-> kept[i].coords[1],
            longitude |-> kept[i].coords[2],
            visit_count |-> kept[i].count]]

\* the comprehension of frequent_places
FrequentPlaces(place_visits, min_visits) ==
    LET kept ==
          SelectSeq(place_visits, LAMBDA data : data.count >= min_visits)
    IN  [i \in DOMAIN kept |->
           [label |-> kept[i].label,
            latitude |-> kept[i].coords[1],
            longitude |-> kept[i].coords[2],
            visit_count |-> kept[i].count]]

\* a time_window entry that reports the supplied date whatever the trips
TimeWindowDate_SuppliedFirst(supplied, filtered_trips, i) ==
    IF Truthy(supplied) THEN supplied
    ELSE IF filtered_trips # <<>> THEN DateText(filtered_trips[i].date)
    ELSE NoDate

\* start_date or filtered_trips[-1]["date"] if filtered_trips else None:
\* the conditional expression binds weaker than "or"
TimeWindowDate(supplied, filtered_trips, i) ==
    IF filtered_trips # <<>>
    THEN IF Truthy(supplied) THEN supplied
         ELSE DateText(filtered_trips[i].date)
    ELSE NoDate

\* HistoryMapServer.get_frequent_places on the stored trips; comparing a
\* count with a min_visits that is not a number raises TypeError inside
\* the try block
get_frequent_places(trips, start_date, end_date, min_visits) ==
    LET filtered_trips == FilterByDate(trips, start_date, end_date)
        place_visits == PlaceVisits(filtered_trips, <<>>)
        unsorted == FrequentPlaces(place_visits, min_visits.val)
        frequent_places ==
          SortDescending(unsorted,
                         [i \in DOMAIN unsorted |-> unsorted[i].visit_count])
    IN  IF min_visits.type # "number" /\ place_visits # <<>>
        THEN ErrorEnvelope(ErrorPrefix("get_frequent_places")
                           \o "TypeError")
        ELSE
        [success |-> TRUE,
         time_window |->
            [start_date |-> TimeWindowDate(start_date, filtered_trips,
                                           Len(filtered_trips)),
             end_date |-> TimeWindowDate(end_date, filtered_trips, 1)],
         total_places |-> Len(frequent_places),
         places |-> frequent_places]

\* mode_stats[mode]: the three "+=" on the entry of a trip's mode, a dict
\* being the sequence of its items in insertion order
AddToModeStats(mode_stats, trip) ==
    LET Entry(old) ==
          [key |-> trip.mode,
           value |-> [trips |-> old.trips + 1,
                      distance_km |-> old.distance_km + trip.distance_km,
                      time_minutes |->
                         old.time_minutes + trip.duration_minutes]]
    IN  IF \E i \in DOMAIN mode_stats : mode_stats[i].key = trip.mode
        THEN [i \in DOMAIN mode_stats |->
                IF mode_stats[i].key = trip.mode
                THEN Entry(mode_stats[i].value)
                ELSE mode_stats[i]]
        ELSE Append(mode_stats,
                    Entry([trips |-> 0, distance_km |-> 0,
                           time_minutes |-> 0]))

\* for trip in filtered_trips: the statistics of its mode
RECURSIVE ModeStats(_, _)
ModeStats(filtered_trips, mode_stats) ==
    IF filtered_trips = <<>> THEN mode_stats
    ELSE ModeStats(Tail(filtered_trips),
                   AddToModeStats(mode_stats, Head(filtered_trips)))

\* f"{trip['origin']['label']} → {trip['destination']['label']}"
RouteKey(trip) == trip.origin.label \o " → " \o trip.destination.label

\* for trip in filtered_trips: route_counts[route_key] += 1
RECURSIVE RouteCounts(_, _)
RouteCounts(filtered_trips, route_counts) ==
    IF filtered_trips = <<>> THEN route_counts
    ELSE RouteCounts(Tail(filtered_trips),
                     Increment(route_counts, RouteKey(Head(filtered_trips))))

\* the sorted list of routes without its slice
TopRoutes_NoCap(route_counts) ==
    LET routes ==
          [i \in DOMAIN route_counts |->
             [route |-> route_counts[i].key,
              trip_count |-> route_counts[i].value]]
    IN  SortDescending(routes,
                       [i \in DOMAIN routes |-> routes[i].trip_count])

\* sorted([...], key=lambda x: x["trip_count"], reverse=True)[:5]
TopRoutes(route_counts) ==
    LET routes ==
          [i \in DOMAIN route_counts |->
             [route |-> route_counts[i].key,
              trip_count |-> route_counts[i].value]]
        sorted ==
          SortDescending(routes,
                         [i \in DOMAIN routes |-> routes[i].trip_count])
    IN  SubSeq(sorted, 1, IF Len(sorted) < 5 THEN Len(sorted) ELSE 5)

\* HistoryMapServer.summarize_travel_stats on the stored trips; round(_, 2)
\* is applied to the sums and to the quotients, which are kept as the
\* pairs of their operands
summarize_travel_stats(trips, start_date, end_date) ==
    LET filtered_trips == FilterByDate(trips, start_date, end_date)
        total_trips == Len(filtered_trips)
        distances ==
          [i \in DOMAIN filtered_trips |-> filtered_trips[i].distance_km]
        durations ==
          [i \in DOMAIN filtered_trips |->
             filtered_trips[i].duration_minutes]
    IN  IF filtered_trips = <<>>
        THEN ErrorEnvelope("No trips found in specified time window")
        ELSE [success |-> TRUE,
              time_window |->
                 [start_date |->
                     IF Truthy(start_date) THEN start_date
                     ELSE DateText(filtered_trips[total_trips].date),
                  end_date |->
                     IF Truthy(end_date) THEN end_date
                     ELSE DateText(filtered_trips[1].date)],
              summary |->
                 [total_trips |-> total_trips,
                  total_distance_km |-> Sum(distances),
                  total_time_hours |-> [sum |-> Sum(durations), len |-> 60],
                  avg_trip_distance_km |-> Average(distances),
                  avg_trip_duration_minutes |-> Average(durations)],
              by_mode |-> ModeStats(filtered_trips, <<>>),
              top_routes |-> TopRoutes(RouteCounts(filtered_trips, <<>>))]

\* the handlers whose upstream data the model does not look into
OtherHandlers ==
    {"reverse_geocode", "search_poi", "get_route", "get_current_weather",
     "get_air_quality", "get_astronomy_data"}

\* the dict of the return statement at the end of a handler's try block
SuccessEnvelopes(h) ==
    CASE h = "reverse_geocode" ->
           {[success |-> TRUE, display_name |-> "<display_name>",
             address |-> "<address>", latitude |-> "<lat>",
             longitude |-> "<lon>"]}
      [] h = "search_poi" ->
           {[success |-> TRUE, count |-> "<len(pois)>", pois |-> "<pois>"]}
      [] h = "get_route" ->
           {[success |-> TRUE, mode |-> "<mode>",
             distance_meters |-> "<distance>", distance_km |-> "<km>",
             duration_seconds |-> "<duration>",
             duration_minutes |-> "<minutes>", steps |-> "<steps>",
             summary |-> "<summary>"]}
      [] h = "get_current_weather" ->
           {[success |-> TRUE, location |-> "<location>",
             timestamp |-> "<time>", current |-> "<current>",
             summary |-> "<summary>"],
            [success |-> TRUE, location |-> "<location>",
             timestamp |-> "<time>", current |-> "<current>",
             summary |-> "<summary>", forecast_24h |-> "<forecast>"]}
      [] h = "get_air_quality" ->
           {[success |-> TRUE, location |-> "<location>",
             timestamp |-> "<time>", air_quality |-> "<air_quality>",
             pollutants |-> "<pollutants>", summary |-> "<summary>"]}
      [] h = "get_astronomy_data" ->
           {[success |-> TRUE, location |-> "<location>", date |-> "<date>",
             sun |-> "<sun>", moon |-> "<moon>", summary |-> "<summary>"]}

\* the dicts of a handler's other return statements: the except branch,
\* and the branch of an upstream reply without a route
FailureEnvelopes(h) ==
    {ErrorEnvelope(ErrorPrefix(h) \o "<e>")}
    \cup (IF h = "get_route"
          THEN {ErrorEnvelope("Routing error: <message>")}
          ELSE {})

\* what a call of one of these handlers can end with: one of its dicts,
\* or the exception of mode.lower() before the try block of get_route
Returns(h) ==
    {Envelope(env) : env \in SuccessEnvelopes(h) \cup FailureEnvelopes(h)}
    \cup (IF h = "get_route" THEN {Raise("AttributeError")} ELSE {})

\* a direct call of geocode
CallGeocode(query, upstream) ==
    /\ h_env = NoResult
    /\ h_call' = [handler |-> "geocode", query |-> query,
                  upstream |-> upstream]
    /\ h_env' = Envelope(geocode(query, upstream))
    /\ UNCHANGED <<chatVars, toolVars, envVars, cleanups, peer_history,
                   trip_data>>

\* a direct call of get_place_details; it sends a request when place_id
\* is a text
CallGetPlaceDetails(place_id, upstream) ==
    /\ h_env = NoResult
    /\ h_call' = [handler |-> "get_place_details", place_id |-> place_id,
                  upstream |-> upstream,
                  osm_ids |-> IF place_id.type = "string"
                              THEN OsmIds(place_id.val) ELSE None]
    /\ h_env' = Envelope(get_place_details(place_id, upstream))
    /\ UNCHANGED <<chatVars, toolVars, envVars, cleanups, peer_history,
                   trip_data>>

\* a direct call of get_typical_route
CallGetTypicalRoute(origin_label, destination_label, time_of_day) ==
    /\ h_env = NoResult
    /\ h_call' = [handler |-> "get_typical_route",
                  origin_label |-> origin_label,
                  destination_label |-> destination_label,
                  time_of_day |-> time_of_day]
    /\ h_env' = Envelope(get_typical_route(trip_data, origin_label,
                                           destination_label, time_of_day))
    /\ UNCHANGED <<chatVars, toolVars, envVars, cleanups, peer_history,
                   trip_data>>

\* a direct call of get_frequent_places
CallGetFrequentPlaces(start_date, end_date, min_visits) ==
    /\ h_env = NoResult
    /\ h_call' = [handler |-> "get_frequent_places",
                  start_date |-> start_date, end_date |-> end_date,
                  min_visits |-> min_visits]
    /\ h_env' = Envelope(get_frequent_places(trip_data, start_date,
                                             end_date, min_visits))
    /\ UNCHANGED <<chatVars, toolVars, envVars, cleanups, peer_history,
                   trip_data>>

\* a direct call of summarize_travel_stats
CallSummarizeTravelStats(start_date, end_date) ==
    /\ h_env = NoResult
    /\ h_call' = [handler |-> "summarize_travel_stats",
                  start_date |-> start_date, end_date |-> end_date]
    /\ h_env' = Envelope(summarize_travel_stats(trip_data, start_date,
                                                end_date))
    /\ UNCHANGED <<chatVars, toolVars, envVars, cleanups, peer_history,
                   trip_data>>

\* a direct call of another handler
CallHandler(h, out) ==
    /\ h_env = NoResult
    /\ out \in Returns(h)
    /\ h_call' = [handler |-> h]
    /\ h_env' = out
    /\ UNCHANGED <<chatVars, toolVars, envVars, cleanups, peer_history,
                   trip_data>>

HandlerNext ==
    \/ \E query \in Queries, upstream \in Upstreams :
          CallGeocode(query, upstream)
    \/ \E place_id \in PlaceIds, upstream \in Upstreams :
          CallGetPlaceDetails(place_id, upstream)
    \/ \E origin_label \in Labels, destination_label \in Labels,
          time_of_day \in TimesOfDay :
          CallGetTypicalRoute(origin_label, destination_label, time_of_day)
    \/ \E start_date \in DateArgs, end_date \in DateArgs,
          min_visits \in MinVisits :
          CallGetFrequentPlaces(start_date, end_date, min_visits)
    \/ \E start_date \in DateArgs, end_date \in DateArgs :
          CallSummarizeTravelStats(start_date, end_date)
    \/ \E h \in OtherHandlers : \E out \in Returns(h) : CallHandler(h, out)

\* the servers on any stored file
HandlerInit ==
    /\ InitChat /\ InitTool /\ InitEnv /\ InitMain /\ InitPeer
    /\ trip_data \in TripData
    /\ h_call = NoCall
    /\ h_env = NoResult

HandlerSpec == HandlerInit /\ [][HandlerNext]_vars

----------------------------------------------------------------------------
(* search_poi and _get_aqi_category called directly, on the servers the    *)
(* agent runs with.  An element of an Overpass reply is kept as its id,    *)
(* its name tag and the distance in metres that _haversine_distance gives  *)
(* for its coordinates.                                                    *)

\* an Overpass reply holds at most MaxElements elements
MaxElements == 22

\* the distance of the i-th of n elements: growing, falling, with ties,
\* constant, and two mixed ones
ElementDistance(pattern, i, n) ==
    CASE pattern = 1 -> 10 * i
      [] pattern = 2 -> 10 * (n - i)
      [] pattern = 3 -> (7 * i) % 5
      [] pattern = 4 -> 0
      [] pattern = 5 -> (13 * i) % 23
      [] pattern = 6 -> IF i <= 20 THEN 500 + i ELSE i

Elements(pattern, n) ==
    [i \in 1..n |->
       [id |-> i, name |-> "Unnamed",
        distance |-> ElementDistance(pattern, i, n)]]

ElementCounts ==
    {0, 1, 2, 3, MaxElements - 3, MaxElements - 2, MaxElements - 1,
     MaxElements}

\* what client.post and the calls on its response produce
PoiUpstreams ==
    {[kind |-> "exception", exc |-> "ConnectError"]}
    \cup {[kind |-> "response", status_code |-> c,
           body |-> [json |-> FALSE, elements |-> <<>>]] :
             c \in StatusCodes}
    \cup {[kind |-> "response", status_code |-> 200,
           body |-> [json |-> TRUE, elements |-> Elements(pattern, n)]] :
             pattern \in 1..6, n \in ElementCounts}

Categories == {"amenity", "shop"}

\* the position a stable sort by increasing key gives the i-th item
RankAscending(keys, i) ==
    1 + Cardinality({j \in DOMAIN keys : keys[j] < keys[i]})
      + Cardinality({j \in 1..(i - 1) : keys[j] = keys[i]})

\* sorted(items, key=...): smaller keys first, items of equal key in their
\* order
SortAscending(items, keys) ==
    LET rank == [i \in DOMAIN items |-> RankAscending(keys, i)]
    IN  [r \in DOMAIN items |->
           items[CHOOSE i \in DOMAIN items : rank[i] = r]]

\* the elements without the slice
FirstTwenty_All(elements) == elements

\* data.get("elements", [])[:20]
FirstTwenty(elements) ==
    SubSeq(elements, 1, IF Len(elements) < 20 THEN Len(elements) ELSE 20)

\* the dict appended to pois for an element
Poi(element, category) ==
    [id |-> element.id,
     name |-> element.name,
     category |-> category,
     key |-> "<tags.get(category)>",
     type |-> "node",
     distance_meters |-> element.distance,
     latitude |-> "<lat>",
     longitude |-> "<lon>"]

\* CoreMapServer.search_poi after its sleep: the try block and its except
search_poi(category, upstream) ==
    IF upstream.kind = "exception"
    THEN ErrorEnvelope("POI search error: " \o upstream.exc)
    ELSE IF RaisesForStatus(upstream)
    THEN ErrorEnvelope("POI search error: HTTPStatusError")
    ELSE IF ~upstream.body.json
    THEN ErrorEnvelope("POI search error: JSONDecodeError")
    ELSE LET first == FirstTwenty(upstream.body.elements)
             pois == [i \in DOMAIN first |-> Poi(first[i], category)]
         IN  [success |-> TRUE,
              count |-> Len(pois),
              pois |-> SortAscending(pois,
                                     [i \in DOMAIN pois |->
                                        pois[i].distance_meters])]

\* a direct call of search_poi
CallSearchPoi(category, upstream) ==
    /\ h_env = NoResult
    /\ h_call' = [handler |-> "search_poi", category |-> category,
                  upstream |-> upstream]
    /\ h_env' = Envelope(search_poi(category, upstream))
    /\ UNCHANGED <<chatVars, toolVars, envVars, cleanups, peer_history,
                   trip_data>>

\* the largest AQI value a reply carries
MaxAqi == 320

AqiValues == (0 - 20)..MaxAqi

AqiCategory(category, health_impact, recommendation) ==
    [category |-> category, health_impact |-> health_impact,
     recommendation |-> recommendation]

\* the classification with exclusive upper bounds
get_aqi_category_Exclusive(aqi) ==
    IF aqi < 50
    THEN AqiCategory("Good", "Air quality is satisfactory",
                     "Enjoy outdoor activities")
    ELSE IF aqi < 100
    THEN AqiCategory("Moderate", "Acceptable for most people",
                     "Sensitive individuals should limit prolonged outdoor exertion")
    ELSE IF aqi < 150
    THEN AqiCategory("Unhealthy for Sensitive Groups",
                     "May cause breathing issues for sensitive groups",
                     "Children, elderly, and people with respiratory conditions should reduce outdoor activities")
    ELSE IF aqi < 200
    THEN AqiCategory("Unhealthy", "Everyone may experience health effects",
                     "Avoid prolonged outdoor activities")
    ELSE IF aqi < 300
    THEN AqiCategory("Very Unhealthy",
                     "Health alert: everyone may experience serious effects",
                     "Stay indoors and keep windows closed")
    ELSE AqiCategory("Hazardous", "Emergency conditions",
                     "Everyone should avoid all outdoor activities")

\* WeatherEnvironmentServer._get_aqi_category on an integer
get_aqi_category(aqi) ==
    IF aqi <= 50
    THEN AqiCategory("Good", "Air quality is satisfactory",
                     "Enjoy outdoor activities")
    ELSE IF aqi <= 100
    THEN AqiCategory("Moderate", "Acceptable for most people",
                     "Sensitive individuals should limit prolonged outdoor exertion")
    ELSE IF aqi <= 150
    THEN AqiCategory("Unhealthy for Sensitive Groups",
                     "May cause breathing issues for sensitive groups",
                     "Children, elderly, and people with respiratory conditions should reduce outdoor activities")
    ELSE IF aqi <= 200
    THEN AqiCategory("Unhealthy", "Everyone may experience health effects",
                     "Avoid prolonged outdoor activities")
    ELSE IF aqi <= 300
    THEN AqiCategory("Very Unhealthy",
                     "Health alert: everyone may experience serious effects",
                     "Stay indoors and keep windows closed")
    ELSE AqiCategory("Hazardous", "Emergency conditions",
                     "Everyone should avoid all outdoor activities")

\* a direct call of _get_aqi_category
CallGetAqiCategory(aqi) ==
    /\ h_env = NoResult
    /\ h_call' = [handler |-> "_get_aqi_category", aqi |-> aqi]
    /\ h_env' = [kind |-> "dict", env |-> get_aqi_category(aqi)]
    /\ UNCHANGED <<chatVars, toolVars, envVars, cleanups, peer_history,
                   trip_data>>

DirectNext ==
    \/ \E category \in Categories, upstream \in PoiUpstreams :
          CallSearchPoi(category, upstream)
    \/ \E aqi \in AqiValues : CallGetAqiCategory(aqi)

DirectSpec == Init /\ [][DirectNext]_vars

----------------------------------------------------------------------------
(* Properties *)

InChat == pc \in {"model_call", "for_loop", "await_tool"}

InChatOrRaised == {"model_call", "for_loop", "await_tool", "raised"}

ModelFailed == pc = "raised" /\ result = Raise("APIError")

IsRequestTurn(turn) == turn.role = "assistant" /\ "tool_calls" \in DOMAIN turn

IsFinalTurn(turn) == turn.role = "assistant" /\ "tool_calls" \notin DOMAIN turn

\* the log ends with the assistant Turn of msg followed by one tool Turn per
\* request of msg, in request order
Answered(history, msg) ==
    LET n == Len(msg.tool_calls)
        l == Len(history)
    IN  /\ l >= n + 1
        /\ history[l - n] = AssistantRequestTurn(msg)
        /\ \A i \in 1..n :
              /\ history[l - n + i].role = "tool"
              /\ history[l - n + i].tool_call_id = msg.tool_calls[i].id

\* C1: once chat() is done with a reply that carries N >= 1 tool requests
\* (it has submitted the next request, or it has ended), the log ends with
\* that reply's assistant Turn followed by exactly N tool Turns, the i-th
\* carrying the id of the i-th request.
C1_EveryRequestAnswered ==
    (pc \in {"model_call", "raised"} /\ response_message.tool_calls # <<>>)
        => Answered(conversation_history, response_message)

\* C2 as stated: after a model endpoint failure the log equals its value
\* immediately before the chat() call.
C2_LogAsBeforeTheCall ==
    ModelFailed => conversation_history = log0

\* C2 amended: after a model endpoint failure the log is its value before
\* the chat() call, followed by the user Turn of the failed call, followed
\* by the assistant and tool Turns of the earlier rounds of that call (one
\* assistant Turn with requests per answered model call).
C2_LogKeepsTheCall ==
    ModelFailed =>
        LET l0 == Len(log0)
            l == Len(conversation_history)
        IN  /\ l > l0
            /\ SubSeq(conversation_history, 1, l0) = log0
            /\ conversation_history[l0 + 1] = UserTurn(user_message)
            /\ \A i \in (l0 + 2)..l :
                  \/ conversation_history[i].role = "tool"
                  \/ IsRequestTurn(conversation_history[i])
            /\ Cardinality({i \in (l0 + 2)..l :
                              IsRequestTurn(conversation_history[i])})
                  = model_calls

\* a model failure in a later round of a chat() on a log that is not empty
C2_Witness == ModelFailed /\ model_calls >= 1 /\ log0 # <<>>

\* C3: after a model endpoint failure the log is the log that was submitted
\* in the failed round's request: the payload of that request is the system
\* message followed by exactly the Turns now in the log.
C3_FailedRoundAppendsNothing ==
    ModelFailed =>
        /\ Len(messages) = Len(conversation_history) + 1
        /\ \A i \in 1..Len(conversation_history) :
              messages[i + 1] = conversation_history[i]

\* a model failure after a completed round of two answered requests
C3_Witness ==
    /\ ModelFailed
    /\ Len(response_message.tool_calls) = 2
    /\ conversation_history[Len(conversation_history)].role = "tool"

\* C4: a tool request whose payload is not decodable does not end chat():
\* no chat() ends with the decoding error.
C4_MalformedPayloadNotFatal ==
    ~(pc = "raised" /\ result = Raise("JSONDecodeError"))

\* C5: execute_tool never raises to its caller.
C5_ExecuteToolNeverRaises ==
    t_state # "raised"

\* C6: execute_tool on a registered tool with a required key missing ends
\* with a failure envelope.
C6_MissingKeyFailureEnvelope ==
    (/\ t_state \in {"returned", "raised"}
     /\ t_name \in ToolNames
     /\ ~(Required(t_name) \subseteq DOMAIN t_args))
        => (/\ t_state = "returned"
            /\ t_out.kind = "envelope"
            /\ ~t_out.env.success)

\* C7: execute_tool on a name that is not registered returns the envelope
\* {success: false, error: "Unknown tool: <name>"} with the requested name,
\* without a handler invocation, an await or an exception.
C7_UnknownToolEnvelope ==
    (t_state # "none" /\ t_name \notin ToolNames)
        => (/\ t_state = "returned"
            /\ t_out = Envelope([success |-> FALSE,
                                 error |-> "Unknown tool: " \o t_name])
            /\ t_handlers = 0)

\* an unregistered name called with arguments
C7_Witness ==
    /\ t_state = "returned"
    /\ t_name = "Geocode"
    /\ DOMAIN t_args = {"query"}

\* C8: a chat() whose first reply carries no tool requests has made one
\* model call and no dispatch, has appended the user Turn and one final
\* assistant Turn, and returns the reply's content, or the fallback string
\* when the content is empty or absent.
C8_RequestFreeFirstReply ==
    (pc = "returned" /\ IsFinalTurn(conversation_history[Len(log0) + 2]))
        => LET answer ==
                 IF response_message.content \in {None, ""}
                 THEN "I apologize, but I couldn't generate a response."
                 ELSE response_message.content
           IN  /\ model_calls = 1
               /\ dispatches = 0
               /\ result = Returned(answer)
               /\ conversation_history =
                     log0 \o <<UserTurn(user_message),
                               [role |-> "assistant", content |-> answer]>>

\* a first reply with an empty content, answered with the fallback
C8_Witness ==
    /\ pc = "returned"
    /\ model_calls = 1
    /\ response_message.content = ""
    /\ result = Returned(FALLBACK)

\* C9: chat() has returned only if the latest reply carries no tool
\* requests; while the latest reply carries tool requests the call is in
\* progress (or ended by an exception) and the last Turn of the log is not a
\* final assistant Turn, whatever the number of rounds.
C9_ReturnsOnlyOnRequestFreeReply ==
    /\ pc = "returned" => response_message.tool_calls = <<>>
    /\ (model_calls > 0 /\ response_message.tool_calls # <<>>)
          => /\ pc \in InChatOrRaised
             /\ ~IsFinalTurn(conversation_history[Len(conversation_history)])

\* the second round of a chat() still dispatching
C9_Witness == pc = "for_loop" /\ model_calls = 2

\* the Turns in the log, counting a handler call in flight as half a Turn
Progress ==
    2 * Len(conversation_history) + (IF pc = "await_tool" THEN 1 ELSE 0)

EnvelopesOf(request) ==
    LET loaded == JsonLoads(request.arguments)
        out == ExecuteTool(request.name, loaded.value)
    IN  IF ~loaded.ok THEN {}
        ELSE IF out.kind = "envelope" THEN {out.env}
        ELSE IF out.kind = "call"
             THEN {o.env : o \in {x \in HandlerOutcomes(out) :
                                     x.kind = "envelope"}}
        ELSE {}

\* the requests of the current round that chat() is done with
Dispatched ==
    IF pc = "model_call" THEN Len(response_message.tool_calls) ELSE idx - 1

IsFailureTurn(turn) ==
    /\ turn.role = "tool"
    /\ \/ \E h \in ToolNames : turn.content = JsonDumps(FailureEnv(h))
       \/ \E r \in Requests : turn.content = JsonDumps(UnknownTool(r.name).env)

\* C11: during a round, whatever the envelopes say, the log ends with the
\* round's assistant Turn followed by one tool Turn per request chat() is
\* done with, in request order, each holding an envelope of its request
\* (success or failure); so a failure envelope is appended like a success,
\* the for loop goes on to the next request after it, and the next model
\* call is made with every request of the round answered.
C11_FailureIsAToolTurn ==
    (InChat /\ response_message.tool_calls # <<>>) =>
        LET n == Dispatched
            l == Len(conversation_history)
        IN  /\ l >= n + 1
            /\ conversation_history[l - n] =
                  AssistantRequestTurn(response_message)
            /\ \A i \in 1..n :
                  conversation_history[l - n + i] \in
                     {ToolTurn(response_message.tool_calls[i], env) :
                        env \in EnvelopesOf(
                                  response_message.tool_calls[i].function)}

\* two requests of one round that both failed, before the next model call
C11_Witness ==
    /\ pc = "model_call"
    /\ Len(response_message.tool_calls) = 2
    /\ response_message.tool_calls[1].function.name = "geocode"
    /\ IsFailureTurn(conversation_history[Len(conversation_history) - 1])
    /\ IsFailureTurn(conversation_history[Len(conversation_history)])


\* the Turns the current chat() has appended
Appended ==
    SubSeq(conversation_history, Len(log0) + 1, Len(conversation_history))

\* the tool requests carried by the first i Turns of a log
RECURSIVE RequestsIn(_, _)
RequestsIn(history, i) ==
    IF i = 0 THEN 0
    ELSE RequestsIn(history, i - 1) +
         (IF IsRequestTurn(history[i]) THEN Len(history[i].tool_calls)
          ELSE 0)

\* C12: when chat() has returned after k tool rounds, the log is the log of
\* before the call followed by 1 + (k + n_1 + ... + n_k) + 1 Turns: the
\* user Turn; per round the assistant Turn with its n_i requests, directly
\* followed by its n_i tool Turns in request order; the final assistant
\* Turn with the returned text.  After one round with one request on a new
\* conversation the log holds 4 Turns: user, assistant with the request,
\* tool, final assistant.
C12_TurnsOfACompletedCall ==
    pc = "returned" =>
        LET a == Appended
            l == Len(a)
            k == model_calls - 1
            rounds == {i \in 1..l : IsRequestTurn(a[i])}
        IN  /\ conversation_history = log0 \o a
            /\ Cardinality(rounds) = k
            /\ RequestsIn(a, l) = dispatches
            /\ l = 1 + (k + RequestsIn(a, l)) + 1
            /\ a[1] = UserTurn(user_message)
            /\ a[l] = AssistantTurn(result.value)
            /\ \A i \in 2..(l - 1) : IsRequestTurn(a[i]) \/ a[i].role = "tool"
            /\ a[2].role # "tool"
            /\ \A i \in rounds :
                  LET n == Len(a[i].tool_calls)
                  IN  /\ i + n < l
                      /\ \A j \in 1..n :
                            /\ a[i + j].role = "tool"
                            /\ a[i + j].tool_call_id = a[i].tool_calls[j].id
                      /\ a[i + n + 1].role # "tool"
            /\ (log0 = <<>> /\ k = 1 /\ dispatches = 1) =>
                  /\ Len(conversation_history) = 4
                  /\ conversation_history[1].role = "user"
                  /\ IsRequestTurn(conversation_history[2])
                  /\ conversation_history[3].role = "tool"
                  /\ IsFinalTurn(conversation_history[4])

\* one round with one request on a new conversation, answered
C12_Witness ==
    /\ pc = "returned"
    /\ log0 = <<>>
    /\ Len(conversation_history) = 4
    /\ conversation_history[3].role = "tool"
    /\ result = Returned("It is in Paris.")


\* C13: every tool Turn of the log comes after the assistant Turn that
\* carries its request, with only tool Turns of the same round in between;
\* and a request is submitted to the model after a round only when the
\* payload ends with that round's assistant Turn followed by the tool Turn
\* of each of its requests, no dispatch of the round being left to do.
C13_RoundAnsweredBeforeNextCall ==
    /\ \A i \in 1..Len(conversation_history) :
          conversation_history[i].role = "tool" =>
             \E j \in 1..(i - 1) :
                /\ IsRequestTurn(conversation_history[j])
                /\ i - j <= Len(conversation_history[j].tool_calls)
                /\ conversation_history[j].tool_calls[i - j].id =
                      conversation_history[i].tool_call_id
                /\ \A m \in (j + 1)..i : conversation_history[m].role = "tool"
    /\ (pc = "model_call" /\ model_calls > 0) =>
          /\ Answered(Tail(messages), response_message)
          /\ idx = 0
          /\ inflight = NoCall

\* the second request of a chat(), submitted after a round of two requests
C13_Witness ==
    /\ pc = "model_call"
    /\ model_calls = 1
    /\ Len(response_message.tool_calls) = 2
    /\ messages[Len(messages)].tool_call_id = CallId(2)


\* C14: after reset_conversation() the log is empty, whatever chat() calls
\* and resets came before (calls that returned and calls that raised), and
\* the payload built by the next chat() is the system message followed by
\* that call's user Turn alone: no Turn of before the reset is in it.
C14_ResetEmptiesTheLog ==
    /\ pc = "idle" => conversation_history = <<>>
    /\ cleared > 0 =>
          /\ pc \in {"idle", "model_call"}
          /\ log0 = <<>>
          /\ model_calls = 0
    /\ (pc = "model_call" /\ log0 = <<>> /\ model_calls = 0) =>
          /\ conversation_history = <<UserTurn(user_message)>>
          /\ messages = <<[role |-> "system", content |-> SYSTEM_PROMPT],
                          UserTurn(user_message)>>

\* the first payload after a reset that removed a whole tool round
C14_Witness ==
    /\ pc = "model_call"
    /\ cleared >= 4
    /\ Len(messages) = 2


\* C15: a step of reset_conversation() (the only step that takes the caller
\* back to a conversation without a chat()) leaves the model client, the
\* model name, the TOOLS catalog and the three server instances as they
\* were.
C15_ResetChangesOnlyTheLog ==
    [][(NotInChat /\ pc' = "idle") =>
          /\ client' = client
          /\ model' = model
          /\ TOOLS' = TOOLS
          /\ core_server' = core_server
          /\ history_server' = history_server
          /\ weather_server' = weather_server]_vars

\* after a reset that removed Turns, the agent as __init__ made it
C15_Witness ==
    /\ pc = "idle"
    /\ cleared > 0
    /\ client = "<OpenAI(OPENAI_API_KEY)>"
    /\ model = "<OPENAI_MODEL>"
    /\ TOOLS = ToolNames


IsPrefix(s, t) == Len(s) <= Len(t) /\ SubSeq(t, 1, Len(s)) = s

\* C16: every step other than a reset leaves the log as it was or extends
\* it: the log before the step is a prefix of the log after it, in the steps
\* that append a Turn and in the steps that end chat() with an exception.
C16_AppendOnly ==
    [][~(NotInChat /\ pc' = "idle") =>
          IsPrefix(conversation_history, conversation_history')]_vars

\* a chat() ended by a payload that is not decodable, after the tool Turn of
\* the round's first request: the Turns of the round are still in the log
C16_Witness ==
    /\ pc = "raised"
    /\ result = Raise("JSONDecodeError")
    /\ idx = 2
    /\ conversation_history[Len(conversation_history)].role = "tool"


\* C17: while a request is with the model, its payload is one system Turn
\* followed by the Turns of the log, all of them and in the order of the
\* log, the Turns of the earlier chat() calls first; the log is then the log
\* of before the call extended by the Turns the call appended; and no Turn
\* of the log has the role system.
C17_PayloadIsSystemThenLog ==
    /\ pc = "model_call" =>
          /\ Len(messages) = Len(conversation_history) + 1
          /\ messages[1] = [role |-> "system", content |-> SYSTEM_PROMPT]
          /\ \A i \in 2..Len(messages) : messages[i].role # "system"
          /\ Tail(messages) = conversation_history
          /\ SubSeq(messages, 2, Len(log0) + 1) = log0
          /\ IsPrefix(log0, conversation_history)
    /\ \A i \in 1..Len(conversation_history) :
          conversation_history[i].role \in {"user", "assistant", "tool"}

\* the request after a tool round of a chat() that is not the first one
\* since the reset
C17_Witness ==
    /\ pc = "model_call"
    /\ log0 # <<>>
    /\ model_calls = 1
    /\ Len(messages) >= 5


\* the assistant Turns the current chat() has appended
AssistantTurns == {i \in 1..Len(Appended) : Appended[i].role = "assistant"}

\* C18: a chat() in which a model call failed ends with the exception and
\* with no answer: the call has appended no final assistant Turn, and its
\* assistant Turns are those of the model calls that were answered.  A
\* chat() has an answer only when it returned, its answer then being made
\* from the latest reply of the model, every model call of the chat()
\* having been answered (one assistant Turn per model call).
C18_ModelFailureIsAnError ==
    /\ ModelFailed =>
          /\ result.kind = "raise"
          /\ \A i \in 1..Len(Appended) : ~IsFinalTurn(Appended[i])
          /\ Cardinality(AssistantTurns) = model_calls
    /\ result.kind = "return" =>
          /\ pc = "returned"
          /\ model_calls >= 1
          /\ Cardinality(AssistantTurns) = model_calls
          /\ result.value = AssistantMessage(response_message)
          /\ conversation_history[Len(conversation_history)] =
                AssistantTurn(result.value)
    /\ pc = "returned" => result.kind = "return"

\* a model failure in the third round of a chat()
C18_Witness == ModelFailed /\ model_calls = 2


\* C19: a backend handler that was called returns an envelope: no call of
\* execute_tool that reached a handler ends with an exception.
C19_HandlersNeverRaise ==
    t_handlers = 1 => t_state # "raised"

\* the enum TOOLS declares for the mode of get_route
ModeEnum == {"driving", "walking", "cycling"}

\* the arguments miss a key the schema of the tool requires, or hold a
\* mode that is not in the enum
ViolatesSchema(name, arguments) ==
    \/ ~(Required(name) \subseteq DOMAIN arguments)
    \/ /\ name = "get_route"
       /\ "mode" \in DOMAIN arguments
       /\ ~(/\ arguments["mode"].type = "string"
            /\ arguments["mode"].val \in ModeEnum)

\* C20: execute_tool on a registered tool with arguments that violate the
\* tool's schema calls no handler and ends with a failure envelope.
C20_SchemaViolationsRejected ==
    (/\ t_state \in {"awaiting", "returned", "raised"}
     /\ t_name \in ToolNames
     /\ ViolatesSchema(t_name, t_args))
        => (/\ t_handlers = 0
            /\ t_state = "returned"
            /\ t_out.kind = "envelope"
            /\ ~t_out.env.success)


----------------------------------------------------------------------------
(* The TOOLS catalog read as data: the parameters of each tool in declared *)
(* order and the "default" each declares                                   *)

Parameters(name) ==
    CASE name = "geocode" -> <<"query">>
      [] name = "reverse_geocode" -> <<"latitude", "longitude">>
      [] name = "search_poi" ->
           <<"latitude", "longitude", "radius", "category", "key">>
      [] name = "get_place_details" -> <<"place_id">>
      [] name = "get_route" ->
           <<"origin_lat", "origin_lon", "dest_lat", "dest_lon", "mode">>
      [] name = "get_frequent_places" ->
           <<"start_date", "end_date", "min_visits">>
      [] name = "summarize_travel_stats" -> <<"start_date", "end_date">>
      [] name = "get_typical_route" ->
           <<"origin_label", "destination_label", "time_of_day">>
      [] name = "get_current_weather" ->
           <<"latitude", "longitude", "include_forecast">>
      [] name = "get_air_quality" -> <<"latitude", "longitude">>
      [] name = "get_astronomy_data" -> <<"latitude", "longitude", "date">>

\* the "default" of a property, None for a property that declares none
DeclaredDefault(name, k) ==
    CASE name = "search_poi" /\ k = "radius" ->
           [type |-> "number", val |-> "1000"]
      [] name = "search_poi" /\ k = "category" ->
           [type |-> "string", val |-> "amenity"]
      [] name = "search_poi" /\ k = "key" ->
           [type |-> "null", val |-> "None"]
      [] name = "get_route" /\ k = "mode" ->
           [type |-> "string", val |-> "driving"]
      [] name = "get_frequent_places" /\ k = "min_visits" ->
           [type |-> "number", val |-> "3"]
      [] name = "get_current_weather" /\ k = "include_forecast" ->
           [type |-> "boolean", val |-> "False"]
      [] OTHER -> [type |-> "null", val |-> "None"]

\* C21: when execute_tool calls a handler, it calls the handler of the
\* requested name with one argument per parameter of the tool, in declared
\* order: the supplied value of a parameter that was supplied, the default
\* the catalog declares for a parameter that was omitted, None when the
\* catalog declares no default for it.
C21_DefaultsOfTheCatalog ==
    t_state = "awaiting" =>
        /\ t_out.handler = t_name
        /\ Len(t_out.args) = Len(Parameters(t_name))
        /\ \A i \in 1..Len(Parameters(t_name)) :
              LET k == Parameters(t_name)[i]
              IN  t_out.args[i] =
                     IF k \in DOMAIN t_args THEN t_args[k]
                     ELSE DeclaredDefault(t_name, k)

\* search_poi called with a category and without radius and key
C21_Witness ==
    /\ t_state = "awaiting"
    /\ t_name = "search_poi"
    /\ DOMAIN t_args = {"latitude", "longitude", "category"}
    /\ t_out.args[3].val = "1000"
    /\ t_out.args[4] = StrVal


\* the position of the last assistant Turn with requests in a log (0: none)
LastRound(history) ==
    LET rounds == {i \in 1..Len(history) : IsRequestTurn(history[i])}
    IN  IF rounds = {} THEN 0
        ELSE CHOOSE i \in rounds : \A j \in rounds : j <= i

\* C22: after chat() was cancelled on a handler call, the latest assistant
\* Turn with requests in the log is followed by one tool Turn for each of
\* its requests.
C22_CancelKeepsCommittedLog ==
    (pc = "raised" /\ result = Raise("CancelledError")) =>
        LET r == LastRound(conversation_history)
        IN  r > 0 =>
               Len(conversation_history) - r =
                  Len(conversation_history[r].tool_calls)


\* C23: while chat() is in the for loop at request i, whether about to
\* dispatch it or suspended on its handler, the log ends with the round's
\* assistant Turn and the tool Turns of the requests 1..i-1, and
\* execute_tool has been called once for each of those (and once for
\* request i when its handler is in flight); and whenever chat() is not in
\* the for loop, execute_tool has been called exactly once for every
\* request of the assistant Turns the call has appended.
C23_DispatchedOnceInOrder ==
    /\ pc \in {"for_loop", "await_tool"} =>
          LET r == LastRound(conversation_history)
          IN  /\ r > Len(log0)
              /\ conversation_history[r] =
                    AssistantRequestTurn(response_message)
              /\ Len(conversation_history) - r = idx - 1
              /\ dispatches =
                    RequestsIn(conversation_history, r - 1)
                       - RequestsIn(log0, Len(log0))
                       + (idx - 1) + (IF pc = "await_tool" THEN 1 ELSE 0)
    /\ pc \in {"model_call", "returned", "raised"} =>
          dispatches = RequestsIn(Appended, Len(Appended))


\* main() has left its while loop
LoopLeft == pc \in {"finally", "done"}

\* a step that leaves main() out of the loop and chat() alone
NoChatAfterTheLoop ==
    /\ LoopLeft'
    /\ conversation_history' = conversation_history
    /\ model_calls' = model_calls
    /\ dispatches' = dispatches

DispatchFrame ==
    LET out == ExecuteTool(CurrentCall.function.name,
                           JsonLoads(CurrentCall.function.arguments).value)
    IN  CASE out.kind = "call" ->
               /\ inflight' = out
               /\ conversation_history' = conversation_history
          [] out.kind = "raise" ->
               /\ result' = out
               /\ conversation_history' = conversation_history
          [] out.kind = "envelope" ->
               conversation_history' =
                  Append(conversation_history, ToolTurn(CurrentCall, out.env))

\* C25: no step of chat() or of reset_conversation(), the calls of
\* execute_tool among them, changes the catalog; and a call of execute_tool
\* has the outcome its two arguments determine, whatever the log holds, and
\* leaves the log to chat().
C25_CatalogFixed ==
    [][/\ TOOLS' = TOOLS
       /\ TOOLS = ToolNames
       /\ (dispatches' = dispatches + 1) => DispatchFrame]_vars

\* chat() has dispatched a request for a name that is not in the catalog,
\* and the name is still not in it
C25_Witness ==
    /\ pc = "model_call"
    /\ dispatches = 2
    /\ response_message.tool_calls[1].function.name = "teleport"
    /\ "teleport" \notin TOOLS
    /\ Cardinality(TOOLS) = 11


\* the "name" entries of the TOOLS list, in the order of the list
Catalog ==
    <<"geocode", "reverse_geocode", "search_poi", "get_place_details",
      "get_route", "get_frequent_places", "summarize_travel_stats",
      "get_typical_route", "get_current_weather", "get_air_quality",
      "get_astronomy_data">>

\* C26: no name occurs twice in the catalog; and execute_tool called with a
\* name of the catalog takes the branch of that name (it calls the handler
\* of the same name, which it always does when the required keys are
\* there, or raises KeyError on a missing key), while called with any other
\* name it calls no handler and answers 'Unknown tool'.
C26_CatalogAgreesWithDispatcher ==
    /\ \A i, j \in 1..Len(Catalog) : Catalog[i] = Catalog[j] => i = j
    /\ {Catalog[i] : i \in 1..Len(Catalog)} = TOOLS
    /\ t_state # "none" =>
          IF \E i \in 1..Len(Catalog) : Catalog[i] = t_name
          THEN /\ t_out # UnknownTool(t_name)
               /\ t_handlers = 1 \/ t_out = Raise("KeyError")
               /\ Required(t_name) \subseteq DOMAIN t_args => t_handlers = 1
               /\ t_state = "awaiting" => t_out.handler = t_name
               /\ (t_state = "returned" /\ t_out.env.success) =>
                     t_out.env.tool = t_name
          ELSE /\ t_handlers = 0
               /\ t_state = "returned"
               /\ t_out = UnknownTool(t_name)

\* the last entry of the catalog, routed to its handler
C26_Witness ==
    /\ t_state = "awaiting"
    /\ t_name = "get_astronomy_data"
    /\ t_out.handler = "get_astronomy_data"
    /\ DOMAIN t_args = {"latitude", "longitude"}


\* a step of the first agent: its log or its position changes
AgentStep ==
    conversation_history' # conversation_history \/ pc' # pc

\* C27: a step of chat() or of reset_conversation() on one agent leaves the
\* log of the other agent as it was, in both directions.
C27_IndependentLogs ==
    [][/\ AgentStep => peer_history' = peer_history
       /\ peer_history' # peer_history =>
             (conversation_history' = conversation_history /\ pc' = pc)]_vars

\* the first agent was reset after a tool round while the second agent
\* holds a conversation
C27_Witness ==
    /\ pc = "idle"
    /\ cleared >= 4
    /\ Len(peer_history) >= 2


----------------------------------------------------------------------------
(* The envelopes of the backend handlers *)

HandlerReturned == h_env.kind = "envelope"

\* C28: every envelope a backend handler returns has a "success" field
\* that is a boolean, and it has an "error" field exactly when success is
\* false
C28_EnvelopeShape ==
    HandlerReturned =>
        LET env == h_env.env
        IN  /\ "success" \in DOMAIN env
            /\ env.success \in BOOLEAN
            /\ ("error" \in DOMAIN env) <=> ~env.success

\* geocode has answered a query that has no result, as
\* test_geocode_not_found does
C28_Witness ==
    /\ HandlerReturned
    /\ h_call.handler = "geocode"
    /\ h_call.upstream.kind = "response"
    /\ h_call.upstream.status_code = 200
    /\ h_call.upstream.body = [json |-> TRUE, data |-> <<>>]
    /\ h_env.env = [success |-> FALSE,
                    error |-> "No results found for '" \o h_call.query
                              \o "'"]

\* the upstream failures of a handler of the core server: an exception of
\* the transport, a status code outside 2xx, an empty list of results
UpstreamFailed(upstream) ==
    \/ upstream.kind = "exception"
    \/ upstream.status_code < 200
    \/ upstream.status_code > 299
    \/ (upstream.body.json /\ Len(upstream.body.data) = 0)

\* the upstream has answered with at least one result
UpstreamHasResult(upstream) ==
    /\ upstream.kind = "response"
    /\ upstream.body.json
    /\ Len(upstream.body.data) >= 1

\* C29: a call of geocode or get_place_details ends with an envelope; on an
\* empty upstream result, a status code outside 2xx or an exception of the
\* transport the envelope is a failure with an "error" field, and the
\* envelope is a success only when the upstream returned at least one
\* result
C29_OwnFailuresBecomeEnvelopes ==
    (h_env.kind # "none"
     /\ h_call.handler \in {"geocode", "get_place_details"}) =>
        /\ HandlerReturned
        /\ UpstreamFailed(h_call.upstream) =>
              /\ h_env.env.success = FALSE
              /\ "error" \in DOMAIN h_env.env
        /\ h_env.env.success = TRUE => UpstreamHasResult(h_call.upstream)

\* get_place_details has met a status code outside 2xx whose body holds a
\* result
C29_Witness ==
    /\ HandlerReturned
    /\ h_call.handler = "get_place_details"
    /\ h_call.place_id.type = "string"
    /\ h_call.upstream.kind = "response"
    /\ h_call.upstream.status_code = 404
    /\ UpstreamHasResult(h_call.upstream)
    /\ h_env.env.success = FALSE

\* the stored trips the call is about: those of its origin label and
\* destination label, and of its hour when it gives one
SuchTrips ==
    {i \in DOMAIN trip_data :
        /\ trip_data[i].origin.label = h_call.origin_label
        /\ trip_data[i].destination.label = h_call.destination_label
        /\ h_call.time_of_day.type = "number" =>
              trip_data[i].hour = h_call.time_of_day.val}

\* the number of them that have the mode
SuchTripsOfMode(mode) ==
    Cardinality({i \in SuchTrips : trip_data[i].mode = mode})

\* C30: get_typical_route returns a failure envelope when no stored trip
\* has the given labels (and the given hour); otherwise a success envelope
\* whose trip_count is the number of these trips, whose most_common_mode
\* is a mode no other mode has more of these trips than, and whose
\* mode_distribution counts sum to trip_count
C30_TypicalRoute ==
    (h_env.kind # "none" /\ h_call.handler = "get_typical_route") =>
        /\ HandlerReturned
        /\ IF SuchTrips = {}
           THEN /\ h_env.env.success = FALSE
                /\ "error" \in DOMAIN h_env.env
           ELSE LET env == h_env.env
                IN  /\ env.success = TRUE
                    /\ env.trip_count = Cardinality(SuchTrips)
                    /\ env.trip_count >= 1
                    /\ SuchTripsOfMode(env.most_common_mode) >= 1
                    /\ \A i \in SuchTrips :
                          SuchTripsOfMode(trip_data[i].mode)
                             <= SuchTripsOfMode(env.most_common_mode)
                    /\ Sum([i \in DOMAIN env.mode_distribution |->
                              env.mode_distribution[i].value])
                          = env.trip_count

\* a route with an hour: two stored trips of it at that hour, in two
\* modes, next to a stored trip of the route at another hour
C30_Witness ==
    /\ HandlerReturned
    /\ h_call.handler = "get_typical_route"
    /\ h_call.time_of_day = Hour(8)
    /\ h_env.env.success = TRUE
    /\ h_env.env.trip_count = 2
    /\ Len(h_env.env.mode_distribution) = 2
    /\ Len(trip_data) = 3
    /\ \E i \in DOMAIN trip_data :
          /\ trip_data[i].origin.label = h_call.origin_label
          /\ trip_data[i].destination.label = h_call.destination_label
          /\ trip_data[i].hour # 8


----------------------------------------------------------------------------
(* get_frequent_places and summarize_travel_stats *)

\* the stored trips within [start_date, end_date] of the call, a bound
\* that was not supplied being no bound
TripsInWindow ==
    {i \in DOMAIN trip_data :
        /\ Truthy(h_call.start_date) =>
              LexLeq(h_call.start_date.val, trip_data[i].date)
        /\ Truthy(h_call.end_date) =>
              LexLeq(trip_data[i].date, h_call.end_date.val)}

Coordinates(place) == <<place.lat, place.lon>>

\* the places of these trips, a place being its coordinates
PlacesInWindow ==
    {Coordinates(trip_data[i].origin) : i \in TripsInWindow}
    \cup {Coordinates(trip_data[i].destination) : i \in TripsInWindow}

\* the appearances of a place as origin or destination in these trips
Appearances(coords) ==
    Cardinality({i \in TripsInWindow :
                    Coordinates(trip_data[i].origin) = coords})
    + Cardinality({i \in TripsInWindow :
                      Coordinates(trip_data[i].destination) = coords})

FrequentPlacesReturned ==
    /\ h_env.kind # "none"
    /\ h_call.handler = "get_frequent_places"

\* 'places' of the envelope holds, once each, the places whose appearances
\* in the window are at least min_visits, each with its number of
\* appearances, in non-increasing order of visit_count, and total_places
\* is its length
PlacesAreTheFrequentOnes ==
    (FrequentPlacesReturned /\ h_call.min_visits.type = "number") =>
        /\ HandlerReturned
        /\ h_env.env.success = TRUE
        /\ LET places == h_env.env.places
               CoordsOf(i) == <<places[i].latitude, places[i].longitude>>
           IN  /\ {CoordsOf(i) : i \in DOMAIN places}
                     = {c \in PlacesInWindow :
                           Appearances(c) >= h_call.min_visits.val}
               /\ \A i, j \in DOMAIN places :
                     CoordsOf(i) = CoordsOf(j) => i = j
               /\ \A i \in DOMAIN places :
                     places[i].visit_count = Appearances(CoordsOf(i))
               /\ \A i, j \in DOMAIN places :
                     i < j => places[i].visit_count >= places[j].visit_count
               /\ h_env.env.total_places = Len(places)

\* the step of a call of get_frequent_places
FrequentPlacesCall ==
    /\ h_env.kind = "none"
    /\ h_env'.kind # "none"
    /\ h_call'.handler = "get_frequent_places"

\* C31: get_frequent_places returns exactly the places, keyed by their
\* coordinates, that appear at least min_visits times as origin or
\* destination of the trips within [start_date, end_date], sorted by
\* visit_count in non-increasing order, with total_places the length of
\* 'places'; the call leaves the stored trips as they were
C31_FrequentPlaces ==
    /\ []PlacesAreTheFrequentOnes
    /\ [][FrequentPlacesCall => trip_data' = trip_data]_vars

\* a call with a date bound that leaves a stored trip out, and a threshold
\* of 2 that keeps a place and leaves a place of the window out
C31_Witness ==
    /\ FrequentPlacesReturned
    /\ h_call.min_visits = Number(2)
    /\ Truthy(h_call.start_date) \/ Truthy(h_call.end_date)
    /\ TripsInWindow # DOMAIN trip_data
    /\ h_env.env.success = TRUE
    /\ h_env.env.total_places >= 1
    /\ \E c \in PlacesInWindow : Appearances(c) < 2


\* the stored trips of the window that have the route
TripsOfRoute(route) ==
    {i \in TripsInWindow : RouteKey(trip_data[i]) = route}

RoutesInWindow == {RouteKey(trip_data[i]) : i \in TripsInWindow}

\* C32: summarize_travel_stats returns a failure envelope when no stored
\* trip falls in the date window; otherwise summary.total_trips is the
\* number of trips in the window and the sum of the "trips" of by_mode,
\* and top_routes holds at most 5 routes, in non-increasing order of
\* trip_count, each with the number of trips of the window on that route
C32_TravelStats ==
    (h_env.kind # "none" /\ h_call.handler = "summarize_travel_stats") =>
        /\ HandlerReturned
        /\ IF TripsInWindow = {}
           THEN /\ h_env.env.success = FALSE
                /\ "error" \in DOMAIN h_env.env
           ELSE LET env == h_env.env
                    top_routes == env.top_routes
                IN  /\ env.success = TRUE
                    /\ env.summary.total_trips = Cardinality(TripsInWindow)
                    /\ env.summary.total_trips =
                          Sum([i \in DOMAIN env.by_mode |->
                                 env.by_mode[i].value.trips])
                    /\ Len(top_routes) <= 5
                    /\ \A i, j \in DOMAIN top_routes :
                          i < j => top_routes[i].trip_count
                                      >= top_routes[j].trip_count
                    /\ \A i \in DOMAIN top_routes :
                          top_routes[i].trip_count =
                             Cardinality(TripsOfRoute(top_routes[i].route))

\* the trips of the window are on six routes and in three modes, and the
\* first of the five routes reported has two trips
C32_Witness ==
    /\ HandlerReturned
    /\ h_call.handler = "summarize_travel_stats"
    /\ h_env.env.success = TRUE
    /\ Cardinality(RoutesInWindow) = 6
    /\ Len(h_env.env.top_routes) = 5
    /\ Len(h_env.env.by_mode) = 3
    /\ h_env.env.top_routes[1].trip_count = 2

\* the first and the last stored trip within the window
FirstInWindow == CHOOSE i \in TripsInWindow : \A j \in TripsInWindow : i <= j
LastInWindow == CHOOSE i \in TripsInWindow : \A j \in TripsInWindow : j <= i

\* C39: in the envelope of get_frequent_places, time_window.start_date is
\* the supplied start_date when one was supplied and a trip matches the
\* window, the date of the last matching trip when none was supplied, and
\* None when no trip matches the window, supplied or not; the same holds
\* of end_date with the first matching trip; without a matching trip the
\* call still succeeds, with an empty 'places'
C39_TimeWindow ==
    (FrequentPlacesReturned /\ h_call.min_visits.type = "number") =>
        LET env == h_env.env
        IN  /\ env.success = TRUE
            /\ IF TripsInWindow = {}
               THEN /\ env.time_window.start_date = NoDate
                    /\ env.time_window.end_date = NoDate
                    /\ env.places = <<>>
               ELSE /\ env.time_window.start_date =
                          IF Truthy(h_call.start_date)
                          THEN h_call.start_date
                          ELSE DateText(trip_data[LastInWindow].date)
                    /\ env.time_window.end_date =
                          IF Truthy(h_call.end_date)
                          THEN h_call.end_date
                          ELSE DateText(trip_data[FirstInWindow].date)

\* a start_date was supplied, trips are stored, and none of them matches
\* the window
C39_Witness ==
    /\ FrequentPlacesReturned
    /\ h_call.min_visits.type = "number"
    /\ Truthy(h_call.start_date)
    /\ trip_data # <<>>
    /\ TripsInWindow = {}
    /\ h_env.env.success = TRUE
    /\ h_env.env.time_window.start_date = NoDate


----------------------------------------------------------------------------
(* The log across chat() calls *)

\* in the payload, every assistant Turn that carries tool requests is
\* directly followed by one tool Turn per request and no more, the i-th
\* with the id of the i-th request
EveryRequestTurnAnswered(payload) ==
    \A j \in DOMAIN payload :
       IsRequestTurn(payload[j]) =>
          LET n == Len(payload[j].tool_calls)
          IN  /\ j + n <= Len(payload)
              /\ \A i \in 1..n :
                    /\ payload[j + i].role = "tool"
                    /\ payload[j + i].tool_call_id =
                          payload[j].tool_calls[i].id
              /\ j + n < Len(payload) => payload[j + n + 1].role # "tool"

\* C33: in every payload submitted to the model, whatever chat() calls
\* came before and however they ended, every assistant Turn that carries
\* tool requests is directly followed by exactly one tool Turn per request,
\* with the ids of the requests in their order
C33_NoUnansweredRequestSubmitted ==
    pc = "model_call" => EveryRequestTurnAnswered(messages)


\* the log is a concatenation of segments: a user Turn, then groups of an
\* assistant Turn with requests followed by the tool Turn of each of its
\* requests, then a final assistant Turn whose content is not empty
RECURSIVE IsSegments(_)
RECURSIVE IsGroupsThenFinal(_)
IsSegments(log) ==
    \/ log = <<>>
    \/ /\ log[1].role = "user"
       /\ IsGroupsThenFinal(Tail(log))

IsGroupsThenFinal(rest) ==
    /\ rest # <<>>
    /\ IF IsFinalTurn(rest[1])
       THEN /\ rest[1].content \notin {None, ""}
            /\ IsSegments(Tail(rest))
       ELSE /\ IsRequestTurn(rest[1])
            /\ LET n == Len(rest[1].tool_calls)
               IN  /\ n >= 1
                   /\ Len(rest) >= n + 1
                   /\ \A i \in 1..n :
                         /\ rest[1 + i].role = "tool"
                         /\ rest[1 + i].tool_call_id = rest[1].tool_calls[i].id
                   /\ IsGroupsThenFinal(SubSeq(rest, n + 2, Len(rest)))

\* C34: when no chat() is in progress and every chat() since the latest
\* reset has returned, the log is a concatenation of segments (one user
\* Turn, zero or more groups of an assistant Turn with requests and its
\* tool Turns, one final assistant Turn without requests), and the content
\* of the last final Turn is the non-empty value the last chat() returned
C34_LogIsSegments ==
    (NotInChat /\ ~failed) =>
        /\ IsSegments(conversation_history)
        /\ pc = "returned" =>
              LET last == conversation_history[Len(conversation_history)]
              IN  /\ IsFinalTurn(last)
                  /\ last.content = result.value
                  /\ result.value # ""

\* two chat() calls have returned, the second one after a tool round
C34_Witness ==
    /\ pc = "returned"
    /\ ~failed
    /\ log0 # <<>>
    /\ Len(conversation_history) = 6
    /\ IsRequestTurn(conversation_history[4])
    /\ conversation_history[5].role = "tool"


----------------------------------------------------------------------------
(* The interactive loop of main() *)

\* the step that calls chat(): its user Turn is appended and its first
\* request is submitted
ChatCalled ==
    /\ pc' = "model_call"
    /\ model_calls' = 0
    /\ conversation_history' =
          Append(conversation_history, UserTurn(user_message'))

\* a step that empties a log that holds Turns
LogEmptied == conversation_history # <<>> /\ conversation_history' = <<>>

\* a step of the chat() in progress that writes the log: it appends to it
ChatAppends ==
    /\ IsPrefix(conversation_history, conversation_history')
    /\ log0' = log0
    /\ user_message' = user_message

OneChatAtATime == ChatCalled => ~InChat
NoResetInChat == LogEmptied => ~InChat
SingleWriter ==
    (InChat /\ conversation_history' # conversation_history) => ChatAppends

\* C35: in the loop of main(), chat() is called only when no chat() is in
\* progress, reset_conversation() never runs while a chat() is in progress
\* (the next line is read after the previous chat() has returned), and
\* while a chat() is in progress the log changes only by the appends of
\* that chat()
C35_OneWriter ==
    /\ [][OneChatAtATime]_vars
    /\ [][NoResetInChat]_vars
    /\ [][SingleWriter]_vars

\* a second chat() of the loop is waiting for a handler while the log
\* holds the Turns of the first one
C35_Witness ==
    /\ pc = "await_tool"
    /\ log0 # <<>>
    /\ IsSegments(log0)
    /\ cleanups = 0


\* the lines of Inputs by what the user means with them: the word exit or
\* the word reset in any letter case between blanks, nothing but blanks,
\* anything else
ExitLines == {<<"e", "x", "i", "t">>, <<" ", "E", "x", "i", "T", " ">>}
ResetLines ==
    {<<"r", "e", "s", "e", "t">>, <<"R", "E", "S", "E", "T", " ">>}
EmptyLines == {<<>>, <<" ", " ">>}
ChatLines == Inputs \ (ExitLines \cup ResetLines \cup EmptyLines)

\* the text of a line of ChatLines without the blanks around it
Trimmed(line) ==
    IF line = <<" ", "W", "h", "e", "r", "e", "?", " ">> THEN "Where?"
    ELSE "exit?"

LogAndModelUntouched ==
    UNCHANGED <<conversation_history, messages, model_calls, dispatches>>

\* what one iteration of the loop does with each kind of line
LoopStepsAsTyped ==
    /\ \A line \in ExitLines :
          MainLoop(line) => (pc' = "finally" /\ LogAndModelUntouched)
    /\ \A line \in ResetLines :
          MainLoop(line) =>
             /\ conversation_history' = <<>>
             /\ pc' = "idle"
             /\ model_calls' = 0
    /\ \A line \in EmptyLines : MainLoop(line) => UNCHANGED vars
    /\ \A line \in ChatLines :
          MainLoop(line) => (ChatCalled /\ user_message' = Trimmed(line))

\* the user Turns of the log are the texts of the other lines
NoCommandInTheLog ==
    \A i \in DOMAIN conversation_history :
       conversation_history[i].role = "user" =>
          /\ conversation_history[i].content
                \in {Trimmed(line) : line \in ChatLines}
          /\ conversation_history[i].content
                \notin {"exit", "ExiT", "EXIT", "reset", "RESET", ""}

\* C36: in the loop of main(), a line that is 'exit' in any letter case
\* after trimming ends the loop without a chat() call, a line that is
\* 'reset' clears the log without a model call, an empty line changes
\* nothing, and every other line is passed to one chat() call, trimmed; so
\* that no user Turn of the log holds the word exit or the word reset
C36_LoopCommands ==
    /\ [][LoopStepsAsTyped]_vars
    /\ []NoCommandInTheLog

\* the line " Where? " and then the line "exit?" have gone to chat() and
\* been answered
C36_Witness ==
    /\ pc = "returned"
    /\ user_message = "exit?"
    /\ log0 # <<>>
    /\ conversation_history[1].content = "Where?"

----------------------------------------------------------------------------
(* search_poi and _get_aqi_category *)

SearchPoiReturned ==
    /\ h_env.kind = "envelope"
    /\ h_call.handler = "search_poi"
    /\ h_env.env.success

\* the ids of the first 20 elements of the reply
FirstTwentyIds ==
    LET elements == h_call.upstream.body.elements
    IN  {elements[i].id : i \in {j \in DOMAIN elements : j <= 20}}

\* C37: a successful search_poi returns at most 20 POIs, those of the
\* first 20 elements of the upstream reply, in non-decreasing order of
\* distance_meters, and its count is the length of pois.
C37_SearchPoi ==
    SearchPoiReturned =>
      LET pois == h_env.env.pois
      IN  /\ Len(pois) <= 20
          /\ Len(pois) = Cardinality(FirstTwentyIds)
          /\ {pois[i].id : i \in DOMAIN pois} = FirstTwentyIds
          /\ \A i \in DOMAIN pois : \A j \in DOMAIN pois :
               i <= j => pois[i].distance_meters <= pois[j].distance_meters
          /\ h_env.env.count = Len(pois)

\* a reply of more than 20 elements, its 21st nearer than all before it and
\* the first 20 not in order of distance, was searched
C37_Witness ==
    /\ SearchPoiReturned
    /\ LET elements == h_call.upstream.body.elements
       IN  /\ Len(elements) > 20
           /\ \A i \in 1..20 : elements[21].distance < elements[i].distance
           /\ elements[1].distance > elements[2].distance

AqiClassified ==
    /\ h_env.kind = "dict"
    /\ h_call.handler = "_get_aqi_category"

\* the category the bands give an AQI value
Band(aqi) ==
    CASE aqi <= 50 -> "Good"
      [] aqi >= 51 /\ aqi <= 100 -> "Moderate"
      [] aqi >= 101 /\ aqi <= 150 -> "Unhealthy for Sensitive Groups"
      [] aqi >= 151 /\ aqi <= 200 -> "Unhealthy"
      [] aqi >= 201 /\ aqi <= 300 -> "Very Unhealthy"
      [] aqi > 300 -> "Hazardous"

\* the categories from the mildest to the worst
Severity(category) ==
    CASE category = "Good" -> 1
      [] category = "Moderate" -> 2
      [] category = "Unhealthy for Sensitive Groups" -> 3
      [] category = "Unhealthy" -> 4
      [] category = "Very Unhealthy" -> 5
      [] category = "Hazardous" -> 6

\* C38: _get_aqi_category gives every integer AQI exactly the category of
\* its band (<= 50 Good, 51..100 Moderate, 101..150 Unhealthy for Sensitive
\* Groups, 151..200 Unhealthy, 201..300 Very Unhealthy, > 300 Hazardous),
\* and no smaller AQI is given a worse category.
C38_AqiCategory ==
    AqiClassified =>
      /\ h_env.env.category = Band(h_call.aqi)
      /\ \A lower \in AqiValues :
           lower <= h_call.aqi =>
             Severity(get_aqi_category(lower).category)
               <= Severity(h_env.env.category)

\* a value on an inclusive upper bound was classified
C38_Witness ==
    /\ AqiClassified
    /\ h_call.aqi \in {50, 100, 150, 200, 300}


====
